---- MODULE Spec2Model ----
(***************************************************************************)
(* Funding-rate arbitrage monitor (taolivar).                              *)
(*                                                                         *)
(* Part I -- the browser relay of src/src/wsServer.js (second module of    *)
(* the file, lines 152-369): one WebSocket server that brokers RPC fetch   *)
(* requests to a browser client, with a ping/pong heartbeat.               *)
(*                                                                         *)
(* The runtime is single threaded: every handler below is one atomic       *)
(* action.  The heartbeat is timed: the ping interval and the pong timeout *)
(* carry their remaining delay in milliseconds, time advances in steps of  *)
(* Step ms and never past a due heartbeat timer.  ws.terminate() destroys  *)
(* the TCP socket, whose 'close' event is emitted in the same turn of the  *)
(* event loop, so time does not advance while such a close event is        *)
(* outstanding; a close started by the peer (readyState CLOSING) may stay  *)
(* outstanding for any time.  A per-call timer carries the delay it was    *)
(* armed with and may fire at any moment while it is armed: the relay      *)
(* fixes no relation between a call's age and the phase of the heartbeat.  *)
(*                                                                         *)
(* Part II -- the application above the relay (src/unnamed/part_000):      *)
(* waitForBrowser and its callers, the retry loop of getVariationalAssets, *)
(* and the opportunity cache of fetchArbitrageData.  Each has its own      *)
(* specification over the same variables: WaitSpec and VarSpec run on the  *)
(* relay's connection handlers, CacheSpec takes the two venue retrievals   *)
(* by their outcomes and has a clock of its own (CacheStep).               *)
(*                                                                         *)
(* Part III -- the calculations (fundingUtils of src/src/bot.js, the       *)
(* aggregation pass of src/unnamed/part_000 and src/src/arbitrageLive.js): *)
(* rate normalisation (RateSpec), settlement times (FundingSpec), the      *)
(* settlement timeline (TimelineSpec) and one pass over the two venue      *)
(* lists (PassSpec).  These are pure functions: the initial state of each  *)
(* specification draws the arguments of a call, its action applies the     *)
(* function.  A JavaScript number is a binary floating-point value m * 2^e *)
(* with Precision significant bits, rounded to nearest, ties to even, as   *)
(* IEEE 754 rounds, with an unbounded exponent and no NaN or Infinity;     *)
(* timestamps in milliseconds are integers.                                *)
(*                                                                         *)
(* Part IV -- the subscriptions of the Telegram bot (src/src/bot.js): /m,  *)
(* /cancel and checkAndNotify (BotSpec).                                   *)
(*                                                                         *)
(* Part V -- the browser extension: the reconnecting background worker of  *)
(* src/unnamed/part_002 (WorkerSpec) and the page-side proxy of            *)
(* src/extension/inject.js that answers rpc_request frames (ProxySpec).    *)
(***************************************************************************)
EXTENDS Integers, Sequences, FiniteSets, TLC

\* ------------------------------------------------------------------ bounds
MaxSockets == 2
MaxRequests == 2
MaxCalls == 2
\* connection attempts in a row the background worker is followed through
MaxAttempts == 102
\* rpc_request frames the page-side proxy is followed through
MaxRpc == 2

\* --------------------------------------------------------- program constants
PING_INTERVAL == 15000
PONG_TIMEOUT == 10000
DEFAULT_TIMEOUT == 30000
\* src/unnamed/part_002:9
maxReconnectAttempts == 100

\* granularity of the clock: divides every delay of the relay
Step == PONG_TIMEOUT \div 2

NULL == 0
Sockets == 1..MaxSockets
Ids == 1..MaxRequests

\* options.timeout of a browserFetch call; 0 stands for "not given", which is
\* what every caller of the repository passes (browserFetch(VAR_API))
TimeoutOptions == {0}

\* the rpc_response frames of the browser: {error, result}; error is absent,
\* the empty string (falsy) or a message
Payloads == {[error |-> "absent", result |-> "r1"],
             [error |-> "", result |-> "r1"],
             [error |-> "E", result |-> "absent"]}

VARIABLES
    readyState,      \* socket -> "UNBORN" | "OPEN" | "CLOSING" | "CLOSED"
    terminated,      \* sockets on which terminate() destroyed the TCP socket
    browserClient,   \* the connection slot: NULL or a socket
    pingTimer,       \* NoPing (null) or the interval [ws, left]
    pongTimer,       \* NoPong (null) or the timeout handle [ws, left, live]
    orphanPong,      \* armed pong timeouts no longer referenced by pongTimer
    isAlive,         \* liveness flag
    requestId,       \* last allocated request id
    pendingRequests, \* set of ids in the pending-request map
    callTimers,      \* id -> delay of the armed per-call timer
    promise,         \* id -> state of the promise returned by browserFetch
    settleCalls,     \* id -> number of resolve/reject invocations on it
    issued,          \* id -> number of calls that were given this id
    lastPing,        \* the server ping not answered yet: [ws, elapsed]
    superseder,      \* sockets adopted by superseding a live connection
    lastOp           \* the handler that ran last, and the frames it sent

relayVars == <<readyState, terminated, browserClient, pingTimer, pongTimer,
               orphanPong, isAlive, requestId, pendingRequests, callTimers,
               promise, settleCalls, issued, lastPing,
               superseder, lastOp>>

\* the application above the relay (src/unnamed/part_000)
VARIABLES
    waiter,          \* the promise of a waitForBrowser call and its poll timer
    cachedData,      \* NoList (null) or the cached opportunity list
    cacheAge,        \* Date.now() - lastFetchTime, counted up to CACHE_TTL
    calls,           \* call -> a fetchArbitrageData call and what became of it
    cacheOp,         \* the step of the aggregator that ran last
    varCall          \* a getVariationalAssets call: where it is, its attempt

cacheVars == <<cachedData, cacheAge, calls, cacheOp>>

\* the rate and timeline functions (src/src/bot.js) and the aggregation pass
\* of fetchArbitrageData: the last call of each and what it returned
VARIABLES
    rateCall,        \* normalizeRate there and back, and toDailyRate
    fundingCall,     \* getNextFundingTime
    timelineCall,    \* generateArbitrageTimeline
    pass             \* the opportunity list built from two venue lists

calcVars == <<rateCall, fundingCall, timelineCall, pass>>

\* the Telegram bot (src/src/bot.js)
VARIABLES
    subscriptions,   \* chat -> its subscription: thresholds, triggered symbols
    notify,          \* the checkAndNotify call under way, waiting in a push
    awaiting,        \* <<chat, symbol>> pushed, no cycle below the exit since
    botOp,           \* the step of the bot that ran last and what it pushed
    texts            \* the argument strings the chats send with /m

botVars == <<subscriptions, notify, awaiting, botOp, texts>>

\* the browser extension (src/unnamed/part_002, src/extension/inject.js)
VARIABLES
    worker,          \* the background worker: its sockets, timers, counters
    workerOp,        \* the handler of the worker that ran last
    proxy            \* the page-side proxy: requests under way, frames sent

extVars == <<worker, workerOp, proxy>>

\* everything beside the relay, the waiter, the cache and the VAR retrieval
sideVars == <<calcVars, botVars, extVars>>

appVars == <<waiter, cacheVars, varCall, sideVars>>

vars == <<relayVars, appVars>>

Min(a, b) == IF a < b THEN a ELSE b

\* the argument main passes to waitForBrowser
WAIT_TIMEOUT == 120000

\* the arguments waitForBrowser is called with: none (0), or main's timeout
WaitArgs == {0, WAIT_TIMEOUT}

\* no waitForBrowser call was made yet
NoWaiter == [st |-> "idle", arg |-> 0, elapsed |-> 0]

\* the waiter after d ms: the time since the call, counted up to the
\* argument the caller passed
Elapse(w, d) ==
    IF w.st = "polling" /\ w.elapsed + d <= w.arg
    THEN [w EXCEPT !.elapsed = @ + d] ELSE w

CACHE_TTL == 30000

Calls == 1..MaxCalls

\* the symbols a venue can list
Symbols == {"BTC"}

\* what a venue retrieval ends with: it threw (after its retries), or it
\* returned a list of assets, possibly an empty one
Failed == [ok |-> FALSE, list |-> {}]
VenueOutcomes == {Failed} \cup {[ok |-> TRUE, list |-> l] : l \in SUBSET Symbols}

\* an opportunity array: its identity (the call that built it) and its symbols
NoList == [id |-> NULL, syms |-> {}]

\* who called fetchArbitrageData: the page or the JSON endpoint of
\* handleRequest, or refreshDataPeriodically
Callers == {"page", "api", "timer"}

\* no answer was written
NoAnswer == [status |-> 0, body |-> "none"]

NoCall == [pc |-> "idle", by |-> "none", age |-> 0, upstream |-> FALSE,
           bin |-> Failed, ret |-> NoList, answer |-> NoAnswer]

CacheOp(name, c, v, b) == [op |-> name, c |-> c, var |-> v, bin |-> b]

\* granularity of the aggregator's clock: divides CACHE_TTL
CacheStep == CACHE_TTL \div 2

\* d ms later: a time span counted up to CACHE_TTL
Older(age, d) == Min(age + d, CACHE_TTL)

\* the default of getVariationalAssets(maxRetries = 3)
maxRetries == 3

\* what the promise of browserFetch(VAR_API) settles with: an object of
\* assets, something that is no object, or a rejection (an error of the
\* page, the per-call timeout, 'Browser disconnected')
FetchOutcomes == {"assets", "invalid", "rejected"}

NoVarCall == [pc |-> "idle", attempt |-> 0, fetches |-> 0, lastError |-> "none"]

\* ------------------------------------------------- numbers of the programme
\* Rates, prices and profits are JavaScript numbers: binary floating point,
\* every operation rounded to the nearest representable value, ties to the
\* even significand.  A number is [m, e], the value m * 2^e, with m = 0 or
\* 2^(Precision-1) <= |m| < 2^Precision.  A double has 53 significant bits;
\* the model keeps Precision of them and leaves the exponent unbounded, so
\* the seconds of an hour and of a day are exact as they are in a double.
\* Milliseconds (Date.now(), getTime()) are whole numbers far below 2^53 and
\* are plain integers.
Precision == 10

RECURSIVE Pow2(_)
Pow2(k) == IF k <= 0 THEN 1 ELSE 2 * Pow2(k - 1)

Abs(n) == IF n < 0 THEN -n ELSE n

Sign(n) == IF n < 0 THEN -1 ELSE IF n > 0 THEN 1 ELSE 0

\* the number of binary digits of n >= 0
RECURSIVE BitLen(_)
BitLen(n) == IF n = 0 THEN 0 ELSE 1 + BitLen(n \div 2)

Zero == [m |-> 0, e |-> 0]

\* n >= 0 without its k > 0 lowest bits, rounded to nearest, ties to even
RoundShift(n, k) ==
    LET q == n \div Pow2(k)
        r == n % Pow2(k)
        half == Pow2(k - 1)
    IN  IF r > half \/ (r = half /\ q % 2 = 1) THEN q + 1 ELSE q

\* the number nearest to n * 2^e
Float(n, e) ==
    IF n = 0 THEN Zero
    ELSE LET a == Abs(n)
             len == BitLen(a)
             k == len - Precision
         IN  IF k <= 0
             THEN [m |-> Sign(n) * a * Pow2(-k), e |-> e + k]
             ELSE LET q == RoundShift(a, k)
                  IN  IF q = Pow2(Precision)
                      THEN [m |-> Sign(n) * Pow2(Precision - 1), e |-> e + k + 1]
                      ELSE [m |-> Sign(n) * q, e |-> e + k]

Number(n) == Float(n, 0)

Negate(a) == [a EXCEPT !.m = -@]

\* a * b
Times(a, b) == Float(a.m * b.m, a.e + b.e)

\* a / b for b # 0: the quotient to Precision + 2 bits and one more bit that
\* tells whether anything was left, which is all that rounding looks at
Over(a, b) ==
    LET num == Abs(a.m) * Pow2(Precision + 2)
        q == num \div Abs(b.m)
        sticky == IF num % Abs(b.m) = 0 THEN 0 ELSE 1
    IN  Float(Sign(a.m) * Sign(b.m) * (2 * q + sticky),
              a.e - b.e - (Precision + 2) - 1)

\* a + b: the operand of the lower exponent is brought to the exponent of
\* the other; one that lies wholly below the bits rounding looks at
\* counts as a last bit of its sign
Plus(a, b) ==
    IF a.m = 0 THEN b
    ELSE IF b.m = 0 THEN a
    ELSE LET hi == IF a.e >= b.e THEN a ELSE b
             lo == IF a.e >= b.e THEN b ELSE a
             d == hi.e - lo.e
         IN  IF d <= Precision + 2
             THEN Float(hi.m * Pow2(d) + lo.m, lo.e)
             ELSE Float(hi.m * Pow2(Precision + 2) + Sign(lo.m),
                        hi.e - (Precision + 2))

Minus(a, b) == Plus(a, Negate(b))

\* a < b, a > b, Math.abs(a)
Less(a, b) == Minus(a, b).m < 0

Greater(a, b) == Less(b, a)

MathAbs(a) == [a EXCEPT !.m = Abs(@)]

\* the decimal literal n/d of the source or of a venue's JSON
Decimal(n, d) == Over(Number(n), Number(d))

\* time constants of the rate functions, in seconds
HOUR_SECONDS == 3600
DAY_SECONDS == 86400
YEAR_SECONDS == 365 * DAY_SECONDS

\* a call of a rate function: its arguments, and once it returned (done)
\* what it returned and that result taken back to the first interval
RateArgs(name, r, i1, i2) ==
    [op |-> name, rate |-> r, from |-> i1, to |-> i2, done |-> FALSE,
     out |-> Zero, back |-> Zero]

NoRateCall == RateArgs("none", Zero, 1, 1)

\* a call of getNextFundingTime: now in ms since the epoch, the interval in
\* seconds, and once it returned (done) the instant it returned
FundingArgs(name, now, intervalSeconds) ==
    [op |-> name, now |-> now, interval |-> intervalSeconds, done |-> FALSE,
     out |-> 0]

NoFundingCall == FundingArgs("none", 0, 1)

\* what generateArbitrageTimeline returns
Timeline(locked, diff, direction, days, rows, final, varTotal, binanceTotal) ==
    [lockedSpreadProfit |-> locked, priceDiffPercent |-> diff,
     direction |-> direction, simulateDays |-> days, timeline |-> rows,
     finalProfit |-> final, varTotalFunding |-> varTotal,
     binanceTotalFunding |-> binanceTotal]

NoTimeline == Timeline(Zero, Zero, "NONE", 1, <<>>, Zero, Zero, Zero)

\* the params object of generateArbitrageTimeline
Params(varPrice, binancePrice, varRate, varInterval, binanceRate, binanceInterval, direction, simulateDays) ==
    [varPrice |-> varPrice, binancePrice |-> binancePrice,
     varRate |-> varRate, varInterval |-> varInterval,
     binanceRate |-> binanceRate, binanceInterval |-> binanceInterval,
     direction |-> direction, simulateDays |-> simulateDays]

\* a call of generateArbitrageTimeline: its params, the clock it read, and
\* once it returned (done) what it returned
TimelineArgs(name, params, now) ==
    [op |-> name, params |-> params, now |-> now, done |-> FALSE,
     out |-> NoTimeline]

NoTimelineCall ==
    TimelineArgs("none", Params(Zero, Zero, Zero, 1, Zero, 1, "NONE", 1), 0)

\* an aggregation pass: the VAR assets, the items of Binance's premiumIndex,
\* the VAR assets whose computation raises an error, the clock, and once it
\* ended (done) the list it built
PassArgs(name, varAssets, data, faulty, now) ==
    [op |-> name, varAssets |-> varAssets, data |-> data,
     faulty |-> faulty, now |-> now, done |-> FALSE, out |-> <<>>]

NoPass == PassArgs("none", <<>>, <<>>, {}, 0)

\* no call of a function of Part III is under way
CalcIdle ==
    /\ rateCall = NoRateCall
    /\ fundingCall = NoFundingCall
    /\ timelineCall = NoTimelineCall
    /\ pass = NoPass

\* the chats that talk to the bot, the symbols of the refreshed lists
Chats == {1, 2}
BotSymbols == {"BTC", "ETH"}

\* subscriptions[chatId] is undefined
NoSub == [on |-> FALSE, trigger |-> Zero, exit |-> Zero, triggered |-> {}]

\* what a checkAndNotify call holds of a chat's entry of
\* Object.entries(subscriptions): the thresholds of the subscription object,
\* whether its triggered object is still the one of subscriptions[chatId]
\* (linked), and the content of that object when it is not
NoEntry == [trigger |-> Zero, exit |-> Zero, linked |-> FALSE, orphan |-> {}]

\* no checkAndNotify call is under way; otherwise: the list it was called
\* with, the chats still to visit (the first being visited), the
\* opportunities still to look at for that chat, the entries, and the
\* <<chat, symbol>> that were due a push when the call started and have not
\* been pushed yet
NoRun == [pc |-> "idle", opps |-> <<>>, chats |-> <<>>, rest |-> <<>>,
          entries |-> [c \in Chats |-> NoEntry], due |-> {}]

\* the step that ran last, the pushes it sent, and the pairs that were due
\* a push in the call it ended and got none
BotOp(name, pushes, missed) ==
    [op |-> name, pushes |-> pushes, missed |-> missed]

\* An argument of a command is a string, taken as the sequence of its
\* characters; a missing argument (undefined) is the empty sequence.
\* The arguments /m is sent with: none, 0.1%, 0.01, a word
PlainArgs == {<<>>, <<"0", ".", "1", "%">>, <<"0", ".", "0", "1">>, <<"x">>}

\* and with a lone dot, or two dots, in the place of a number
ArgStrings == PlainArgs \cup {<<".">>, <<"1", ".", ".", "%">>}

\* The background worker right after its script ran (part_002:213 calls
\* connect()): `live` lists the readyState of every socket made whose close
\* event has not been dispatched yet, `ws` is the place in `live` of the
\* socket the variable ws refers to (0: null, or a socket that is CLOSED),
\* `timers` lists the outstanding setTimeout(connect, delay), each by the
\* exponent its delay was computed with.
WorkerStart ==
    [live |-> <<"CONNECTING">>, ws |-> 1, reconnectAttempts |-> 0,
     timers |-> <<>>, pingTimer |-> FALSE, pongTimer |-> FALSE,
     isAlive |-> FALSE]

\* the handler that ran last, the readyState the socket it ran for had
\* before, and how many connection attempts it scheduled
WorkerOp(name, was, scheduled) ==
    [op |-> name, was |-> was, scheduled |-> scheduled]

\* The page-side proxy after its script ran: no request handled, nothing
\* posted to the server.
ProxyStart == [requests |-> <<>>, sent |-> <<>>]

AppStart(strings) ==
    /\ texts = strings
    /\ subscriptions = [c \in Chats |-> NoSub]
    /\ notify = NoRun
    /\ awaiting = {}
    /\ botOp = BotOp("init", {}, {})
    /\ varCall = NoVarCall
    /\ waiter = NoWaiter
    /\ cachedData = NoList
    /\ cacheAge = CACHE_TTL
    /\ calls = [c \in Calls |-> NoCall]
    /\ cacheOp = CacheOp("init", NULL, Failed, Failed)
    /\ worker = WorkerStart
    /\ workerOp = WorkerOp("init", "none", 0)
    /\ proxy = ProxyStart

AppInit == AppStart(PlainArgs)

\* a timer variable holding null
NoPing == [ws |-> NULL, left |-> 0]
NoPong == [ws |-> NULL, left |-> 0, live |-> FALSE]

Unsettled == [kind |-> "unsettled", val |-> ""]
\* no server ping is waiting for its pong
NoneOutstanding == [ws |-> NULL, elapsed |-> 0]

Op(name, id, sent) == [op |-> name, id |-> id, sent |-> sent]
Frame(to, type, id) == [to |-> to, type |-> type, id |-> id]

RelayInit ==
    /\ readyState = [s \in Sockets |-> "UNBORN"]
    /\ terminated = {}
    /\ browserClient = NULL
    /\ pingTimer = NoPing
    /\ pongTimer = NoPong
    /\ orphanPong = {}
    /\ isAlive = FALSE
    /\ requestId = 0
    /\ pendingRequests = {}
    /\ callTimers = [i \in {} |-> 0]
    /\ promise = [i \in Ids |-> Unsettled]
    /\ settleCalls = [i \in Ids |-> 0]
    /\ issued = [i \in Ids |-> 0]
    /\ lastPing = NoneOutstanding
    /\ superseder = {}
    /\ lastOp = Op("init", NULL, << >>)

\* ------------------------------------------------------------ small helpers
\* isBrowserConnected(): the slot is populated and its socket is open
isBrowserConnected ==
    browserClient # NULL /\ readyState[browserClient] = "OPEN"

\* ws.terminate(): destroys the TCP socket unless the socket is closed already
Terminate(rs, s) ==
    IF rs[s] = "CLOSED" THEN rs ELSE [rs EXCEPT ![s] = "CLOSING"]

TerminatedBy(rs, s) ==
    IF rs[s] = "CLOSED" THEN terminated ELSE terminated \cup {s}

\* the armed pong timeouts left behind when pongTimer is overwritten
Orphaned == IF pongTimer # NoPong /\ pongTimer.live
            THEN orphanPong \cup {[ws |-> pongTimer.ws, left |-> pongTimer.left]}
            ELSE orphanPong

\* variant: the resolve/reject wrappers without their clearTimeout
KeepCallTimers(S) == callTimers

\* pending.resolve / pending.reject of every id in S: the wrapper clears the
\* call's timer and settles the promise (a promise keeps its first settlement)
ClearCallTimers(S) ==
    [i \in (DOMAIN callTimers) \ S |-> callTimers[i]]

SettledPromise(S, kind, val) ==
    [i \in Ids |-> IF i \in S /\ promise[i].kind = "unsettled"
                   THEN [kind |-> kind, val |-> val]
                   ELSE promise[i]]

SettleCounted(S) ==
    [i \in Ids |-> IF i \in S THEN settleCalls[i] + 1 ELSE settleCalls[i]]

\* variant: the loop of cleanupConnection stops after its first entry
CleanupRejectsFirst ==
    {i \in pendingRequests : \A j \in pendingRequests : i <= j}

\* the entries cleanupConnection rejects: every entry of the map
CleanupRejects == pendingRequests

\* the slot after cleanupConnection
CleanupSlot == NULL

\* cleanupConnection(): clearTimers(), null the slot, reject and delete every
\* pending request
cleanupConnection ==
    /\ pingTimer' = NoPing
    /\ pongTimer' = NoPong
    /\ browserClient' = CleanupSlot
    /\ promise' = SettledPromise(CleanupRejects, "disconnected", "Browser disconnected")
    /\ settleCalls' = SettleCounted(CleanupRejects)
    /\ callTimers' = ClearCallTimers(CleanupRejects)
    /\ pendingRequests' = pendingRequests \ CleanupRejects

\* ------------------------------------------------------------------ actions

\* wss.on('connection'): a new browser socket is accepted
Accept ==
    \E s \in Sockets :
        /\ readyState[s] = "UNBORN"
        /\ \A r \in Sockets : r < s => readyState[r] # "UNBORN"
        /\ LET live == isBrowserConnected
               rs1 == IF live THEN Terminate(readyState, browserClient)
                      ELSE readyState
           IN /\ readyState' = [rs1 EXCEPT ![s] = "OPEN"]
              /\ terminated' = IF live THEN TerminatedBy(readyState, browserClient)
                               ELSE terminated
              /\ superseder' = IF live THEN superseder \cup {s} ELSE superseder
        /\ browserClient' = s
        \* startPingPong(ws)
        /\ pongTimer' = NoPong
        /\ isAlive' = TRUE
        /\ pingTimer' = [ws |-> s, left |-> PING_INTERVAL]
        /\ lastOp' = Op("connection", NULL, << >>)
        /\ UNCHANGED <<appVars, orphanPong, requestId, pendingRequests, callTimers,
                       promise, settleCalls, issued, lastPing>>

\* the setInterval callback of startPingPong
PingTick ==
    /\ pingTimer # NoPing
    /\ pingTimer.left = 0
    /\ LET ws == pingTimer.ws IN
       IF readyState[ws] # "OPEN"
       THEN /\ pingTimer' = NoPing
            /\ pongTimer' = NoPong
            /\ lastOp' = Op("ping_tick", NULL, << >>)
            /\ UNCHANGED <<orphanPong, isAlive, lastPing>>
       ELSE /\ pingTimer' = [pingTimer EXCEPT !.left = PING_INTERVAL]
            /\ pongTimer' = [ws |-> ws, left |-> PONG_TIMEOUT, live |-> TRUE]
            /\ orphanPong' = Orphaned
            /\ isAlive' = FALSE
            /\ lastPing' = [ws |-> ws, elapsed |-> 0]
            /\ lastOp' = Op("ping_tick", NULL, <<Frame(ws, "ping", NULL)>>)
    /\ UNCHANGED <<appVars, readyState, terminated, browserClient, requestId,
                   pendingRequests, callTimers, promise, settleCalls, issued,
                   superseder>>

\* the body of the pong-timeout callback, for the socket ws it closes over
PongExpired(ws) ==
    /\ readyState' = IF ~isAlive THEN Terminate(readyState, ws) ELSE readyState
    /\ terminated' = IF ~isAlive THEN TerminatedBy(readyState, ws) ELSE terminated
    /\ lastOp' = Op("pong_timeout", NULL, << >>)

\* the setTimeout callback armed by the ping tick
PongTimeout ==
    /\ \/ /\ pongTimer # NoPong
          /\ pongTimer.live
          /\ pongTimer.left = 0
          /\ PongExpired(pongTimer.ws)
          /\ pongTimer' = [pongTimer EXCEPT !.live = FALSE]
          /\ UNCHANGED orphanPong
       \/ \E t \in orphanPong :
             /\ t.left = 0
             /\ PongExpired(t.ws)
             /\ orphanPong' = orphanPong \ {t}
             /\ UNCHANGED pongTimer
    /\ UNCHANGED <<appVars, browserClient, pingTimer, isAlive, requestId,
                   pendingRequests, callTimers, promise, settleCalls, issued,
                   lastPing, superseder>>

\* variant: the handler settles the oldest entry, whatever the frame's id
PendingGetOldest(id) ==
    {i \in pendingRequests : \A j \in pendingRequests : i <= j}

\* pendingRequests.get(msg.id): the entry the rpc_response handler settles
PendingGet(id) == IF id \in pendingRequests THEN {id} ELSE {}

\* variant: the rpc_response handler without its pendingRequests.delete
AnsweredKeep(id) == pendingRequests

\* pendingRequests.delete(msg.id) after the entry was settled
AnsweredDelete(id) == pendingRequests \ {id}

\* `if (msg.error)`: the error field is present and truthy
HasError(err) == err # "absent" /\ err # ""

\* ws.on('message') with an rpc_response frame {id, error, result}
RpcResponse ==
    \E id \in Ids, msg \in Payloads :
        /\ \E s \in Sockets : readyState[s] = "OPEN"
        /\ LET hit == PendingGet(id) IN
           /\ promise' = IF HasError(msg.error)
                         THEN SettledPromise(hit, "rejected", msg.error)
                         ELSE SettledPromise(hit, "resolved", msg.result)
           /\ settleCalls' = SettleCounted(hit)
           /\ callTimers' = ClearCallTimers(hit)
           /\ pendingRequests' = IF hit # {} THEN AnsweredDelete(id)
                                 ELSE pendingRequests
        /\ lastOp' = Op("rpc_response", id, << >>)
        /\ UNCHANGED <<appVars, readyState, terminated, browserClient, pingTimer,
                       pongTimer, orphanPong, isAlive, requestId, issued,
                       lastPing, superseder>>

\* ws.on('message') with a ready frame: logged only
Ready ==
        /\ \E s \in Sockets : readyState[s] = "OPEN"
        /\ lastOp' = Op("ready", NULL, << >>)
        /\ UNCHANGED <<appVars, readyState, terminated, browserClient, pingTimer,
                       pongTimer, orphanPong, isAlive, requestId,
                       pendingRequests, callTimers, promise, settleCalls,
                       issued, lastPing, superseder>>

\* variant: the pong handler without its clearTimeout
PongKeepsTimer == pongTimer

\* `clearTimeout(pongTimer); pongTimer = null` of the pong handler
PongDisarmed == NoPong

\* ws.on('message') with a pong frame
Pong ==
        /\ \E s \in Sockets : readyState[s] = "OPEN"
        /\ isAlive' = TRUE
        /\ pongTimer' = PongDisarmed
        /\ lastPing' = NoneOutstanding
        /\ lastOp' = Op("pong", NULL, << >>)
        /\ UNCHANGED <<appVars, readyState, terminated, browserClient, pingTimer,
                       orphanPong, requestId, pendingRequests, callTimers,
                       promise, settleCalls, issued, superseder>>

\* variant: the pong is sent on the adopted connection
PongReplyToAdopted(s) == browserClient

\* `ws.send(...)` of the ping branch: the socket the pong is sent on
PongReplyTo(s) == s

\* ws.on('message') with a ping frame of the client: answered with a pong
ClientPing ==
    \E s \in Sockets :
        /\ readyState[s] = "OPEN"
        /\ lastOp' = Op("ping", NULL, <<Frame(PongReplyTo(s), "pong", NULL)>>)
        /\ UNCHANGED <<appVars, readyState, terminated, browserClient, pingTimer,
                       pongTimer, orphanPong, isAlive, requestId,
                       pendingRequests, callTimers, promise, settleCalls,
                       issued, lastPing, superseder>>

\* variant: a frame that cannot be handled tears the connection down
BadFrameCleansUp ==
        /\ \E s \in Sockets : readyState[s] = "OPEN"
        /\ cleanupConnection
        /\ lastOp' = Op("bad_frame", NULL, << >>)
        /\ UNCHANGED <<appVars, readyState, terminated, orphanPong, isAlive,
                       requestId, issued, lastPing, superseder>>

\* ws.on('message') with a frame that is not JSON, or of an unknown type
BadFrame ==
        /\ \E s \in Sockets : readyState[s] = "OPEN"
        /\ lastOp' = Op("bad_frame", NULL, << >>)
        /\ UNCHANGED <<appVars, readyState, terminated, browserClient, pingTimer,
                       pongTimer, orphanPong, isAlive, requestId,
                       pendingRequests, callTimers, promise, settleCalls,
                       issued, lastPing, superseder>>

\* the peer starts closing the socket: readyState leaves OPEN, the 'close'
\* event follows when the TCP socket has ended
PeerClose ==
    \E s \in Sockets :
        /\ readyState[s] = "OPEN"
        /\ readyState' = [readyState EXCEPT ![s] = "CLOSING"]
        /\ lastOp' = Op("peer_close", NULL, << >>)
        /\ UNCHANGED <<appVars, terminated, browserClient, pingTimer, pongTimer,
                       orphanPong, isAlive, requestId, pendingRequests,
                       callTimers, promise, settleCalls, issued, lastPing, superseder>>

\* ws.on('close'): the socket is closed, by the peer or by terminate()
CloseEvent ==
    \E s \in Sockets :
        /\ readyState[s] \in {"OPEN", "CLOSING"}
        /\ readyState' = [readyState EXCEPT ![s] = "CLOSED"]
        /\ cleanupConnection
        /\ lastPing' = IF lastPing.ws = s THEN NoneOutstanding ELSE lastPing
        /\ superseder' = superseder \ {s}
        /\ lastOp' = Op("close", NULL, << >>)
        /\ UNCHANGED <<appVars, terminated, orphanPong, isAlive, requestId, issued>>

\* variant: the error handler runs cleanupConnection like the close handler
SocketErrorCleansUp ==
        /\ \E s \in Sockets : readyState[s] \in {"OPEN", "CLOSING"}
        /\ cleanupConnection
        /\ lastOp' = Op("error", NULL, << >>)
        /\ UNCHANGED <<appVars, readyState, terminated, orphanPong, isAlive,
                       requestId, issued, lastPing, superseder>>

\* ws.on('error'): logged only
SocketError ==
        /\ \E s \in Sockets : readyState[s] \in {"OPEN", "CLOSING"}
        /\ lastOp' = Op("error", NULL, << >>)
        /\ UNCHANGED <<appVars, readyState, terminated, browserClient, pingTimer,
                       pongTimer, orphanPong, isAlive, requestId,
                       pendingRequests, callTimers, promise, settleCalls,
                       issued, lastPing, superseder>>

\* variant: the guard of browserFetch without the readyState test
NotConnectedNullOnly == browserClient = NULL

\* `if (!browserClient || browserClient.readyState !== 1)`
NotConnected == ~isBrowserConnected

\* variant: the id is taken from the size of the pending map
NextRequestIdBySize == Cardinality(pendingRequests) + 1

\* `++requestId`
NextRequestId == requestId + 1

\* `options.timeout || 30000`
TimeoutOf(opt) == IF opt # 0 THEN opt ELSE DEFAULT_TIMEOUT

\* variant: browserFetch registers the entry and arms no timer
ArmNoTimer(id, opt) == callTimers

\* setTimeout(..., timeout): the per-call timer of id is armed
ArmTimer(id, opt) ==
    [i \in DOMAIN callTimers \cup {id} |->
        IF i = id THEN TimeoutOf(opt) ELSE callTimers[i]]

\* browserFetch(url, options)
BrowserFetch ==
    \E opt \in TimeoutOptions :
        IF NotConnected
        THEN /\ lastOp' = Op("browserFetch:notConnected", NULL, << >>)
             /\ UNCHANGED <<appVars, readyState, terminated, browserClient, pingTimer,
                            pongTimer, orphanPong, isAlive, requestId,
                            pendingRequests, callTimers, promise, settleCalls,
                            issued, lastPing,
                            superseder>>
        ELSE LET id == NextRequestId IN
             /\ id \in Ids
             /\ requestId' = id
             /\ callTimers' = ArmTimer(id, opt)
             /\ pendingRequests' = pendingRequests \cup {id}
             /\ promise' = [promise EXCEPT ![id] = Unsettled]
             /\ issued' = [issued EXCEPT ![id] = @ + 1]
             /\ lastOp' = Op("browserFetch", id,
                             <<Frame(browserClient, "rpc_request", id)>>)
             /\ UNCHANGED <<appVars, readyState, terminated, browserClient, pingTimer,
                            pongTimer, orphanPong, isAlive, settleCalls,
                            lastPing, superseder>>

\* variant: the timer callback without its pendingRequests.delete
TimedOutKeep(id) == pendingRequests

\* the pending map after the per-call timer callback ran for id
TimedOutDelete(id) == pendingRequests \ {id}

\* the setTimeout callback of browserFetch: delete the entry, reject
CallTimeoutOf(id) ==
        /\ id \in DOMAIN callTimers
        /\ pendingRequests' = TimedOutDelete(id)
        /\ promise' = SettledPromise({id}, "timeout", "timeout")
        /\ settleCalls' = SettleCounted({id})
        /\ callTimers' = [i \in (DOMAIN callTimers) \ {id} |-> callTimers[i]]
        /\ lastOp' = Op("call_timeout", id, << >>)
        /\ UNCHANGED <<appVars, readyState, terminated, browserClient, pingTimer,
                       pongTimer, orphanPong, isAlive, requestId, issued,
                       lastPing, superseder>>

CallTimeout == \E id \in Ids : CallTimeoutOf(id)

\* Step ms pass: allowed when no heartbeat timer is due and no close event of
\* a destroyed socket is outstanding
Tick ==
    /\ pingTimer # NoPing => pingTimer.left > 0
    /\ (pongTimer # NoPong /\ pongTimer.live) => pongTimer.left > 0
    /\ \A t \in orphanPong : t.left > 0
    /\ \A s \in terminated : readyState[s] = "CLOSED"
    /\ pingTimer' = IF pingTimer # NoPing
                    THEN [pingTimer EXCEPT !.left = @ - Step] ELSE pingTimer
    /\ pongTimer' = IF pongTimer # NoPong /\ pongTimer.live
                    THEN [pongTimer EXCEPT !.left = @ - Step] ELSE pongTimer
    /\ orphanPong' = {[t EXCEPT !.left = @ - Step] : t \in orphanPong}
    /\ lastPing' = IF lastPing # NoneOutstanding
                   THEN [lastPing EXCEPT !.elapsed = Min(@ + Step, PING_INTERVAL)]
                   ELSE lastPing
    /\ lastOp' = Op("tick", NULL, << >>)
    /\ waiter' = Elapse(waiter, Step)
    /\ UNCHANGED <<sideVars, cacheVars, varCall>>
    /\ UNCHANGED <<readyState, terminated, browserClient, isAlive, requestId,
                   pendingRequests, callTimers, promise, settleCalls, issued,
                   superseder>>

RelayNext ==
    \/ Accept
    \/ PingTick
    \/ PongTimeout
    \/ RpcResponse
    \/ Ready
    \/ Pong
    \/ ClientPing
    \/ BadFrame
    \/ PeerClose
    \/ CloseEvent
    \/ SocketError
    \/ BrowserFetch
    \/ CallTimeout
    \/ Tick

Init == RelayInit /\ AppInit /\ CalcIdle

RelaySpec == Init /\ [][RelayNext]_vars

\* the relay with the runtime's guarantee that an armed timer fires
RelayLiveSpec == RelaySpec /\ \A id \in Ids : WF_vars(CallTimeoutOf(id))

\* every variable of the relay but lastOp
relayState == <<readyState, terminated, browserClient, pingTimer, pongTimer,
                orphanPong, isAlive, requestId, pendingRequests, callTimers,
                promise, settleCalls, issued, lastPing, superseder>>

Disconnected == [kind |-> "disconnected", val |-> "Browser disconnected"]
TimedOut == [kind |-> "timeout", val |-> "timeout"]

\* ------------------------------------------------- waiting for the browser

\* waitForBrowser(): resolves at once when the browser is connected, else
\* starts the 100 ms poll; the function declares no parameter, whatever the
\* caller passes
WaitForBrowser ==
    \E arg \in WaitArgs :
        /\ waiter.st # "polling"
        /\ waiter' = [st |-> IF isBrowserConnected THEN "resolved" ELSE "polling",
                      arg |-> arg, elapsed |-> 0]
        /\ UNCHANGED <<sideVars, relayVars, cacheVars, varCall>>

\* the setInterval callback of waitForBrowser finds the browser connected
WaitPoll ==
    /\ waiter.st = "polling"
    /\ isBrowserConnected
    /\ waiter' = [waiter EXCEPT !.st = "resolved"]
    /\ UNCHANGED <<sideVars, relayVars, cacheVars, varCall>>

\* the connection and its heartbeat, and a caller waiting for the browser;
\* the calls and frames that leave the connection alone are left out
WaitNext ==
    \/ Accept
    \/ PeerClose
    \/ CloseEvent
    \/ PingTick
    \/ PongTimeout
    \/ Pong
    \/ Tick
    \/ WaitForBrowser
    \/ WaitPoll

WaitSpec == Init /\ [][WaitNext]_vars

\* ------------------------------------------------- the opportunity cache

\* variant: the JSON endpoint answers a failed refresh with an empty list
AnswerAlwaysList(by, pc) ==
    IF by = "timer" THEN NoAnswer
    ELSE IF by = "page" THEN [status |-> 200, body |-> "html"]
    ELSE [status |-> 200, body |-> "opportunities"]

\* the answer handleRequest writes when the call has returned or thrown: the
\* page or the list with 200, the error with 500; refreshDataPeriodically
\* writes none
AnswerOf(by, pc) ==
    IF by = "timer" THEN NoAnswer
    ELSE IF pc = "returned"
         THEN [status |-> 200,
               body |-> IF by = "page" THEN "html" ELSE "opportunities"]
         ELSE [status |-> 500,
               body |-> IF by = "page" THEN "text" ELSE "error"]

\* `cachedData && now - lastFetchTime < CACHE_TTL`
CacheFresh(age) == cachedData # NoList /\ age < CACHE_TTL

\* fetchArbitrageData() up to its await: refreshDataPeriodically first sets
\* lastFetchTime = 0; a fresh cache is returned at once, else both venue
\* retrievals are started; the Binance retrieval runs synchronously in the
\* first microtask, the VAR retrieval is awaited
FetchArbitrageData ==
    \E c \in Calls, by \in Callers, b \in VenueOutcomes :
        /\ calls[c].pc = "idle"
        /\ \A d \in Calls : d < c => calls[d].pc # "idle"
        /\ cacheAge' = IF by = "timer" THEN CACHE_TTL ELSE cacheAge
        /\ calls' = [calls EXCEPT ![c] =
                IF CacheFresh(cacheAge')
                THEN [pc |-> "returned", by |-> by, age |-> 0,
                      upstream |-> FALSE, bin |-> Failed,
                      ret |-> cachedData, answer |-> AnswerOf(by, "returned")]
                ELSE [pc |-> "awaiting", by |-> by, age |-> 0,
                      upstream |-> TRUE, bin |-> b,
                      ret |-> NoList, answer |-> NoAnswer]]
        /\ cacheOp' = CacheOp("fetch", c, Failed, Failed)
        /\ UNCHANGED <<sideVars, relayVars, waiter, varCall, cachedData>>

\* variant: only a failed VAR retrieval falls back to the cache
RefreshVerdictVarOnly(v, b) ==
    IF ~v.ok /\ cachedData # NoList THEN "cached"
    ELSE IF v.list = {} /\ b.list = {} THEN "throw"
    ELSE "store"

\* what a refresh does when its venues have ended with v (VAR) and b
\* (Binance): it returns the cache ("cached"), throws, or builds and stores a
\* new list
RefreshVerdict(v, b) ==
    IF ~v.ok /\ cachedData # NoList THEN "cached"
    ELSE IF ~b.ok /\ cachedData # NoList THEN "cached"
    ELSE IF v.list = {} /\ b.list = {} THEN "throw"
    ELSE "store"

\* the opportunities of a refresh: one per VAR asset Binance lists too
Opportunities(c, v, b) == [id |-> c, syms |-> v.list \cap b.list]

\* fetchArbitrageData() after Promise.allSettled: the VAR retrieval has
\* ended with v
RefreshDone ==
    \E c \in Calls, v \in VenueOutcomes :
        /\ calls[c].pc = "awaiting"
        /\ LET b == calls[c].bin
               verdict == RefreshVerdict(v, b)
               by == calls[c].by
           IN /\ cachedData' = IF verdict = "store" THEN Opportunities(c, v, b)
                                ELSE cachedData
              /\ cacheAge' = IF verdict = "store" THEN calls[c].age ELSE cacheAge
              /\ calls' = [calls EXCEPT ![c] =
                      IF verdict = "throw"
                      THEN [@ EXCEPT !.pc = "rejected", !.bin = Failed,
                                     !.answer = AnswerOf(by, "rejected")]
                      ELSE [@ EXCEPT !.pc = "returned", !.bin = Failed,
                                     !.ret = cachedData',
                                     !.answer = AnswerOf(by, "returned")]]
              /\ cacheOp' = CacheOp("done", c, v, b)
        /\ UNCHANGED <<sideVars, relayVars, waiter, varCall>>

\* CacheStep ms pass: Date.now() moves on for the cache and for every call
CacheTick ==
    /\ cacheAge' = Older(cacheAge, CacheStep)
    /\ calls' = [c \in Calls |->
                    IF calls[c].pc = "idle" THEN calls[c]
                    ELSE [calls[c] EXCEPT !.age = Older(@, CacheStep)]]
    /\ cacheOp' = CacheOp("tick", NULL, Failed, Failed)
    /\ UNCHANGED <<sideVars, relayVars, waiter, varCall, cachedData>>

\* the aggregator: requests and the refresh timer call fetchArbitrageData,
\* time passes
CacheNext ==
    \/ FetchArbitrageData
    \/ RefreshDone
    \/ CacheTick

CacheSpec == Init /\ [][CacheNext]_vars

\* --------------------------------------------------- the VAR retrieval

\* `await waitForBrowser()` inside getVariationalAssets (no argument)
WaitStarted ==
    [st |-> IF isBrowserConnected THEN "resolved" ELSE "polling",
     arg |-> 0, elapsed |-> 0]

\* getVariationalAssets() is called: the first attempt up to its await;
\* without a connection the call waits for the browser (line 52), else it
\* calls browserFetch, which registers the request
GetVariationalAssets ==
    /\ varCall.pc \in {"idle", "fulfilled", "rejected"}
    /\ waiter.st # "polling"
    /\ LET fresh == NoVarCall
       IN /\ waiter' = IF isBrowserConnected THEN waiter ELSE WaitStarted
          /\ varCall' = IF isBrowserConnected
                        THEN [fresh EXCEPT !.pc = "fetching", !.attempt = 1,
                                           !.fetches = 1]
                        ELSE [fresh EXCEPT !.pc = "waitPre", !.attempt = 1]
    /\ UNCHANGED <<sideVars, relayVars, cacheVars>>

\* the poll of waitForBrowser finds the browser connected and the call goes
\* on in the same turn: after the wait of line 52 with browserFetch, after
\* the wait of line 94 with the next attempt, which finds the connection
\* open and calls browserFetch
VarPoll ==
    /\ varCall.pc \in {"waitPre", "waitRetry"}
    /\ waiter.st = "polling"
    /\ isBrowserConnected
    /\ waiter' = [waiter EXCEPT !.st = "resolved"]
    /\ varCall' = [varCall EXCEPT
                      !.pc = "fetching",
                      !.attempt = IF varCall.pc = "waitRetry" THEN @ + 1 ELSE @,
                      !.fetches = @ + 1]
    /\ UNCHANGED <<sideVars, relayVars, cacheVars>>

\* `if (attempt < maxRetries)` of the catch block
MayRetry(n) == n < maxRetries

\* the promise of browserFetch settles: the assets are returned, or the
\* catch block records the error and waits for the browser before the next
\* attempt, or, after the last attempt, the loop ends and lastError is thrown
VarSettle ==
    \E o \in FetchOutcomes :
        /\ varCall.pc = "fetching"
        /\ IF o = "assets"
           THEN /\ varCall' = [varCall EXCEPT !.pc = "fulfilled"]
                /\ UNCHANGED waiter
           ELSE IF MayRetry(varCall.attempt)
           THEN /\ waiter' = WaitStarted
                /\ varCall' = IF isBrowserConnected
                              THEN [varCall EXCEPT !.lastError = o,
                                                   !.attempt = @ + 1,
                                                   !.fetches = @ + 1]
                              ELSE [varCall EXCEPT !.lastError = o,
                                                   !.pc = "waitRetry"]
           ELSE /\ varCall' = [varCall EXCEPT !.lastError = o,
                                              !.pc = "rejected"]
                /\ UNCHANGED waiter
        /\ UNCHANGED <<sideVars, relayVars, cacheVars>>

\* a getVariationalAssets call and the connection it depends on; the relay's
\* side of browserFetch is the promise it returns
VarNext ==
    \/ Accept
    \/ PeerClose
    \/ CloseEvent
    \/ GetVariationalAssets
    \/ VarPoll
    \/ VarSettle

VarSpec == Init /\ [][VarNext]_vars

\* the runtime fires the poll timer, and the relay settles every call
VarLiveSpec == VarSpec /\ WF_vars(VarPoll) /\ WF_vars(VarSettle)

\* ============================================================ Part III
\* The rate functions, the settlement times and the timeline of
\* src/src/bot.js, and the aggregation pass of fetchArbitrageData.  Each is
\* a function of its arguments (and of the clock): its specification calls
\* it with arguments drawn from bounded sets and keeps the call.

\* ---------------------------------------------------------- rate functions
\* rates of the calls, in thousandths of a percent: -MaxRate .. MaxRate
MaxRate == 40

Rates == {Decimal(n, 1000) : n \in -MaxRate..MaxRate}

\* funding intervals in seconds: the venues' 1 h, 4 h and 8 h, a day, and
\* two that divide none of them
Intervals == {1, 7, HOUR_SECONDS, 4 * HOUR_SECONDS, 8 * HOUR_SECONDS, DAY_SECONDS}

normalizeRatePerHour(rate, originalIntervalSeconds, targetIntervalSeconds) ==
    Times(Over(rate, Number(HOUR_SECONDS)), Number(targetIntervalSeconds))

normalizeRate(rate, originalIntervalSeconds, targetIntervalSeconds) ==
    LET ratePerSecond == Over(rate, Number(originalIntervalSeconds))
    IN  Times(ratePerSecond, Number(targetIntervalSeconds))

to8HourRate(rate, intervalSeconds) ==
    normalizeRate(rate, intervalSeconds, 8 * HOUR_SECONDS)

toDailyRate(rate, intervalSeconds) ==
    normalizeRate(rate, intervalSeconds, DAY_SECONDS)

toAnnualRate(rate, intervalSeconds) ==
    normalizeRate(rate, intervalSeconds, YEAR_SECONDS)

\* the call returns
RateReturn(out) ==
    [rateCall EXCEPT !.done = TRUE, !.out = out,
                     !.back = normalizeRate(out, rateCall.to, rateCall.from)]

\* normalizeRate(r, i1, i2), and the result taken back to i1
NormalizeRate ==
    /\ rateCall.op = "normalizeRate" /\ ~rateCall.done
    /\ rateCall' = RateReturn(normalizeRate(rateCall.rate, rateCall.from,
                                            rateCall.to))
    /\ UNCHANGED <<relayVars, waiter, cacheVars, varCall, botVars, extVars,
                   fundingCall, timelineCall, pass>>

\* toDailyRate(r, i)
ToDailyRate ==
    /\ rateCall.op = "toDailyRate" /\ ~rateCall.done
    /\ rateCall' = RateReturn(toDailyRate(rateCall.rate, rateCall.from))
    /\ UNCHANGED <<relayVars, waiter, cacheVars, varCall, botVars, extVars,
                   fundingCall, timelineCall, pass>>

RateNext == NormalizeRate \/ ToDailyRate

\* the calls: every rate and every pair of intervals
RateInit ==
    /\ RelayInit /\ AppInit
    /\ rateCall \in
          {RateArgs("normalizeRate", r, i1, i2) :
              r \in Rates, i1 \in Intervals, i2 \in Intervals}
          \cup {RateArgs("toDailyRate", r, i, DAY_SECONDS) :
                    r \in Rates, i \in Intervals}
    /\ fundingCall = NoFundingCall
    /\ timelineCall = NoTimelineCall
    /\ pass = NoPass

RateSpec == RateInit /\ [][RateNext]_vars

\* |a - b| <= |b| * 2^(k - Precision): a is b to within 2^k roundings
Within(a, b, k) ==
    ~Greater(MathAbs(Minus(a, b)), Times(MathAbs(b), Float(1, k - Precision)))

\* -------------------------------------------------------- settlement times
\* the clock of the calls: ms since the epoch, on days 0 .. MaxDay, at the
\* hours below and around them
MaxDay == 1

HOUR_MS == HOUR_SECONDS * 1000
DAY_MS == DAY_SECONDS * 1000

Nows ==
    {d * DAY_MS + h * HOUR_MS + o :
        d \in 0..MaxDay, h \in {0, 1, 7, 8, 16, 23},
        o \in {0, 1, 999, 1000, HOUR_MS \div 2, HOUR_MS - 1}}

\* intervals in seconds: those of the rate functions and one beyond a day
FundingIntervals == Intervals \cup {DAY_SECONDS + HOUR_SECONDS}

\* Date.UTC(year, month, date) of now: the start of now's UTC day
utcMidnightOf(now) == (now \div DAY_MS) * DAY_MS

\* Math.ceil in place of Math.floor(..) + 1
getNextFundingTimeCeil(now, intervalSeconds) ==
    LET intervalMs == intervalSeconds * 1000
        utcMidnight == utcMidnightOf(now)
        msSinceMidnight == now - utcMidnight
        intervalsPassed == (msSinceMidnight + intervalMs - 1) \div intervalMs
    IN  utcMidnight + intervalsPassed * intervalMs

getNextFundingTime(now, intervalSeconds) ==
    LET intervalMs == intervalSeconds * 1000
        utcMidnight == utcMidnightOf(now)
        msSinceMidnight == now - utcMidnight
        intervalsPassed == msSinceMidnight \div intervalMs
    IN  utcMidnight + (intervalsPassed + 1) * intervalMs

GetNextFundingTime ==
    /\ fundingCall.op = "getNextFundingTime" /\ ~fundingCall.done
    /\ fundingCall' =
          [fundingCall EXCEPT
              !.done = TRUE,
              !.out = getNextFundingTime(fundingCall.now, fundingCall.interval)]
    /\ UNCHANGED <<relayVars, waiter, cacheVars, varCall, botVars, extVars,
                   rateCall, timelineCall, pass>>

FundingNext == GetNextFundingTime

FundingInit ==
    /\ RelayInit /\ AppInit
    /\ fundingCall \in
          {FundingArgs("getNextFundingTime", now, i) :
              now \in Nows, i \in FundingIntervals}
    /\ rateCall = NoRateCall
    /\ timelineCall = NoTimelineCall
    /\ pass = NoPass

FundingSpec == FundingInit /\ [][FundingNext]_vars

\* ----------------------------------------------------------------- timeline
Directions == {"SHORT_VAR", "SHORT_BINANCE", "NONE"}

\* the settlement instants from next on, one interval apart, up to endTime:
\* while (next <= endTime)
RECURSIVE FundingTimesBefore(_, _, _)
FundingTimesBefore(next, intervalSeconds, endTime) ==
    IF next < endTime
    THEN <<next>> \o FundingTimesBefore(next + intervalSeconds * 1000,
                                        intervalSeconds, endTime)
    ELSE <<>>

RECURSIVE FundingTimes(_, _, _)
FundingTimes(next, intervalSeconds, endTime) ==
    IF next <= endTime
    THEN <<next>> \o FundingTimes(next + intervalSeconds * 1000,
                                  intervalSeconds, endTime)
    ELSE <<>>

\* the events of one venue
FundingEvents(source, rate, now, intervalSeconds, endTime) ==
    LET times == FundingTimes(getNextFundingTime(now, intervalSeconds),
                              intervalSeconds, endTime)
    IN  [i \in 1..Len(times) |->
            [time |-> times[i], source |-> source, rate |-> rate]]

\* events.sort((a, b) => a.time - b.time): Array.prototype.sort is stable,
\* an event goes behind every event that is not later than it
\* the events left in the order they were pushed in, last first
InsertByTimeFront(sorted, event) == <<event>> \o sorted

RECURSIVE InsertByTime(_, _)
InsertByTime(sorted, event) ==
    IF sorted = <<>> THEN <<event>>
    ELSE IF Head(sorted).time - event.time > 0
         THEN <<event>> \o sorted
         ELSE <<Head(sorted)>> \o InsertByTime(Tail(sorted), event)

RECURSIVE SortByTime(_, _)
SortByTime(sorted, events) ==
    IF events = <<>> THEN sorted
    ELSE SortByTime(InsertByTime(sorted, Head(events)), Tail(events))

\* what the position receives at a settlement of VAR, of Binance
varFundingOfElse(direction, rate) ==
    IF direction = "SHORT_VAR" THEN rate ELSE Negate(rate)

varFundingOf(direction, rate) ==
    IF direction = "SHORT_VAR" THEN rate
    ELSE IF direction = "SHORT_BINANCE" THEN Negate(rate)
    ELSE Zero

\* Binance paying the same way whichever leg is short
binanceFundingOfSame(direction, rate) ==
    IF direction = "NONE" THEN Zero ELSE Negate(rate)

binanceFundingOf(direction, rate) ==
    IF direction = "SHORT_VAR" THEN Negate(rate)
    ELSE IF direction = "SHORT_BINANCE" THEN rate
    ELSE Zero

\* the first row: the position is opened
OpenRow(now, lockedSpreadProfit) ==
    [time |-> now, event |-> "OPEN", varFunding |-> Zero,
     binanceFunding |-> Zero, netFunding |-> Zero,
     spreadProfit |-> lockedSpreadProfit,
     cumulativeProfit |-> lockedSpreadProfit]

\* let cumulativeProfit = lockedSpreadProfit
OpenProfitZero(lockedSpreadProfit) == Zero

OpenProfit(lockedSpreadProfit) == lockedSpreadProfit

\* one turn of the loop over the events: run is the timeline so far and the
\* three running sums
SettleEvent(run, event, direction) ==
    LET isVar == event.source = "VAR"
        varFunding == IF isVar THEN varFundingOf(direction, event.rate)
                      ELSE Zero
        binanceFunding == IF isVar THEN Zero
                          ELSE binanceFundingOf(direction, event.rate)
        varCumulative == IF isVar THEN Plus(run.varCumulative, varFunding)
                         ELSE run.varCumulative
        binanceCumulative ==
            IF isVar THEN run.binanceCumulative
            ELSE Plus(run.binanceCumulative, binanceFunding)
        netFunding == Plus(varFunding, binanceFunding)
        cumulativeProfit == Plus(run.cumulativeProfit, netFunding)
    IN  [timeline |->
            Append(run.timeline,
                   [time |-> event.time, event |-> event.source,
                    varFunding |-> varFunding,
                    binanceFunding |-> binanceFunding,
                    netFunding |-> netFunding, spreadProfit |-> Zero,
                    cumulativeProfit |-> cumulativeProfit,
                    varCumulative |-> varCumulative,
                    binanceCumulative |-> binanceCumulative]),
         cumulativeProfit |-> cumulativeProfit,
         varCumulative |-> varCumulative,
         binanceCumulative |-> binanceCumulative]

RECURSIVE SettleEvents(_, _, _)
SettleEvents(run, events, direction) ==
    IF events = <<>> THEN run
    ELSE SettleEvents(SettleEvent(run, Head(events), direction),
                      Tail(events), direction)

generateArbitrageTimeline(params, now) ==
    LET endTime == now + params.simulateDays * DAY_SECONDS * 1000
        priceDiffPercent ==
            Times(Over(Minus(params.varPrice, params.binancePrice),
                       params.binancePrice),
                  Number(100))
        lockedSpreadProfit ==
            IF params.direction = "SHORT_VAR" THEN priceDiffPercent
            ELSE IF params.direction = "SHORT_BINANCE"
                 THEN Negate(priceDiffPercent)
                 ELSE Zero
        events ==
            SortByTime(<<>>,
                FundingEvents("VAR", params.varRate, now,
                              params.varInterval, endTime)
                \o FundingEvents("BINANCE", params.binanceRate, now,
                                 params.binanceInterval, endTime))
        run == SettleEvents(
                  [timeline |-> <<OpenRow(now, lockedSpreadProfit)>>,
                   cumulativeProfit |-> OpenProfit(lockedSpreadProfit),
                   varCumulative |-> Zero, binanceCumulative |-> Zero],
                  events, params.direction)
    IN  Timeline(lockedSpreadProfit, priceDiffPercent, params.direction,
                 params.simulateDays, run.timeline, run.cumulativeProfit,
                 run.varCumulative, run.binanceCumulative)

GenerateArbitrageTimeline ==
    /\ timelineCall.op = "generateArbitrageTimeline" /\ ~timelineCall.done
    /\ timelineCall' =
          [timelineCall EXCEPT
              !.done = TRUE,
              !.out = generateArbitrageTimeline(timelineCall.params,
                                                timelineCall.now)]
    /\ UNCHANGED <<relayVars, waiter, cacheVars, varCall, botVars, extVars,
                   rateCall, fundingCall, pass>>

TimelineNext == GenerateArbitrageTimeline

\* prices and rates of the calls
Prices == {Number(99), Number(100)}

SomeRates == {Decimal(n, 1000) : n \in {-10, 0, 25}}

VarIntervals == {HOUR_SECONDS, 8 * HOUR_SECONDS}

BinanceIntervals == {4 * HOUR_SECONDS, 8 * HOUR_SECONDS}

TimelineParams ==
    {Params(vp, bp, vr, vi, br, bi, dir, 1) :
        vp \in Prices, bp \in {Number(100)}, vr \in SomeRates,
        vi \in VarIntervals, br \in SomeRates, bi \in BinanceIntervals,
        dir \in Directions}

TimelineInit ==
    /\ RelayInit /\ AppInit
    /\ timelineCall \in
          {TimelineArgs("generateArbitrageTimeline", params, now) :
              params \in TimelineParams, now \in Nows}
    /\ rateCall = NoRateCall
    /\ fundingCall = NoFundingCall
    /\ pass = NoPass

TimelineSpec == TimelineInit /\ [][TimelineNext]_vars

\* the rows of a timeline that settle the given venue
RowsOf(rows, source) == {i \in 1..Len(rows) : rows[i].event = source}

\* start + the netFunding of the rows from i on, added in their order
RECURSIVE PlusNetFunding(_, _, _)
PlusNetFunding(start, rows, i) ==
    IF i > Len(rows) THEN start
    ELSE PlusNetFunding(Plus(start, rows[i].netFunding), rows, i + 1)

\* ------------------------------------------------------ the aggregation pass
\* fetchArbitrageData from the two venue lists on (src/unnamed/part_000
\* 184-264), and the same of the earlier src/src/arbitrageLive.js (79-183),
\* which has no try/catch around an asset and sorts by annualDiff.
\* A symbol is a sequence of pieces: <<"BTC", "USDT">> is "BTCUSDT".

\* sym.replace(piece, ''): the first occurrence of the piece is removed
ReplaceNothing(sym, piece) == sym

RECURSIVE Replace(_, _)
Replace(sym, piece) ==
    IF sym = <<>> THEN <<>>
    ELSE IF Head(sym) = piece THEN Tail(sym)
    ELSE <<Head(sym)>> \o Replace(Tail(sym), piece)

\* a perpetual of VAR as getVariationalAssets returns it
VarAsset(symbol, price, fundingRate, fundingIntervalSeconds) ==
    [symbol |-> symbol, price |-> price, fundingRate |-> fundingRate,
     fundingIntervalSeconds |-> fundingIntervalSeconds]

\* an item of premiumIndex with the fundingIntervalHours fundingInfo has for
\* its symbol, 0 when it has none
BinanceItem(symbol, markPrice, lastFundingRate, fundingIntervalHours) ==
    [symbol |-> symbol, markPrice |-> markPrice,
     lastFundingRate |-> lastFundingRate,
     fundingIntervalHours |-> fundingIntervalHours]

\* the result of getBinanceRates: data.map(item => ...)
BinanceRate(item) ==
    [symbol |-> Replace(Replace(item.symbol, "USDT"), "USDC"),
     markPrice |-> item.markPrice,
     fundingRate |-> Times(item.lastFundingRate, Number(100)),
     fundingIntervalSeconds |->
        IF item.fundingIntervalHours = 0 THEN 8 * HOUR_SECONDS
        ELSE item.fundingIntervalHours * HOUR_SECONDS]

getBinanceRates(data) == [i \in 1..Len(data) |-> BinanceRate(data[i])]

\* binanceRateMap[symbol]: the last rate of the list with that symbol; 0 is
\* undefined
binanceRateMap(binanceRates, symbol) ==
    LET at == {i \in 1..Len(binanceRates) : binanceRates[i].symbol = symbol}
    IN  IF at = {} THEN 0
        ELSE CHOOSE i \in at : \A j \in at : j <= i

\* the direction the difference of the 8 h rates selects
DirectionOf(rateDiff) ==
    IF Greater(rateDiff, Decimal(1, 100)) THEN "SHORT_VAR"
    ELSE IF Less(rateDiff, Negate(Decimal(1, 100))) THEN "SHORT_BINANCE"
    ELSE "NONE"

\* the 8 h rate of Binance the pass works with: binanceData.fundingRate || 0
binance8hRateOf(binanceData) == binanceData.fundingRate

\* the opportunity of the VAR asset at index asset
Opportunity(asset, varAsset, binanceData, now) ==
    LET var8hRate == to8HourRate(varAsset.fundingRate,
                                 varAsset.fundingIntervalSeconds)
        binance8hRate == binance8hRateOf(binanceData)
        varAnnualRate == toAnnualRate(varAsset.fundingRate,
                                      varAsset.fundingIntervalSeconds)
        binanceAnnualRate == toAnnualRate(binanceData.fundingRate,
                                          binanceData.fundingIntervalSeconds)
        rateDiff == Minus(var8hRate, binance8hRate)
        annualDiff == Minus(varAnnualRate, binanceAnnualRate)
        direction == DirectionOf(rateDiff)
        positionSize == 10000
        timeline ==
            generateArbitrageTimeline(
                Params(varAsset.price, binanceData.markPrice,
                       varAsset.fundingRate, varAsset.fundingIntervalSeconds,
                       binanceData.fundingRate,
                       binanceData.fundingIntervalSeconds, direction, 1),
                now)
    IN  [asset |-> asset,
         symbol |-> varAsset.symbol,
         varPrice |-> varAsset.price,
         binancePrice |-> binanceData.markPrice,
         varRate |-> varAsset.fundingRate,
         varInterval |-> varAsset.fundingIntervalSeconds,
         var8hRate |-> var8hRate,
         varAnnualRate |-> varAnnualRate,
         binanceRate |-> binanceData.fundingRate,
         binanceInterval |-> binanceData.fundingIntervalSeconds,
         binance8hRate |-> binance8hRate,
         binanceAnnualRate |-> binanceAnnualRate,
         rateDiff8h |-> rateDiff,
         annualDiff |-> annualDiff,
         direction |-> direction,
         dailyProfit |-> Over(Times(Number(positionSize), timeline.finalProfit),
                              Number(100)),
         positionSize |-> positionSize,
         timeline |-> timeline]

\* the assets the loop goes on with after the catch of one asset's error
RestAfterErrorNone(rest) == <<>>

RestAfterError(rest) == rest

\* for (const varAsset of varAssets): the assets from index asset on
RECURSIVE Collect(_, _, _, _, _, _)
Collect(opportunities, varAssets, asset, binanceRates, faulty, now) ==
    IF varAssets = <<>> THEN opportunities
    ELSE LET varAsset == Head(varAssets)
             at == binanceRateMap(binanceRates, varAsset.symbol)
         IN  IF at = 0
             THEN Collect(opportunities, Tail(varAssets), asset + 1,
                          binanceRates, faulty, now)
             ELSE IF asset \in faulty
             THEN Collect(opportunities, RestAfterError(Tail(varAssets)),
                          asset + 1, binanceRates, faulty, now)
             ELSE Collect(Append(opportunities,
                                 Opportunity(asset, varAsset,
                                             binanceRates[at], now)),
                          Tail(varAssets), asset + 1, binanceRates, faulty,
                          now)

\* the key the list is sorted by, largest first
finalProfitKey(o) == MathAbs(o.timeline.finalProfit)

annualDiffKey(o) == MathAbs(o.annualDiff)

SortKey(version, o) ==
    IF version = "arbitrageLive" THEN annualDiffKey(o) ELSE finalProfitKey(o)

\* the opportunity goes before the first one that is not before it
InsertBeforeEqual(version, sorted, o) ==
    ~Less(Minus(SortKey(version, o), SortKey(version, Head(sorted))), Zero)

\* opportunities.sort((a, b) => Math.abs(b.key) - Math.abs(a.key)):
\* Array.prototype.sort is stable, an opportunity goes before the first one
\* the comparator puts behind it
InsertBefore(version, sorted, o) ==
    Greater(Minus(SortKey(version, o), SortKey(version, Head(sorted))), Zero)

RECURSIVE InsertByKey(_, _, _)
InsertByKey(version, sorted, o) ==
    IF sorted = <<>> THEN <<o>>
    ELSE IF InsertBefore(version, sorted, o) THEN <<o>> \o sorted
    ELSE <<Head(sorted)>> \o InsertByKey(version, Tail(sorted), o)

RECURSIVE SortByKey(_, _, _)
SortByKey(version, sorted, opportunities) ==
    IF opportunities = <<>> THEN sorted
    ELSE SortByKey(version,
                   InsertByKey(version, sorted, Head(opportunities)),
                   Tail(opportunities))

\* the list of a pass
OpportunitiesOf(version, varAssets, data, faulty, now) ==
    SortByKey(version, <<>>,
              Collect(<<>>, varAssets, 1, getBinanceRates(data), faulty, now))

\* src/unnamed/part_000
FetchArbitrageDataPass ==
    /\ pass.op = "fetchArbitrageData" /\ ~pass.done
    /\ pass' = [pass EXCEPT
                   !.done = TRUE,
                   !.out = OpportunitiesOf("part_000", pass.varAssets,
                                            pass.data, pass.faulty, pass.now)]
    /\ UNCHANGED <<relayVars, waiter, cacheVars, varCall, botVars, extVars,
                   rateCall, fundingCall, timelineCall>>

\* src/src/arbitrageLive.js
FetchArbitrageDataLive ==
    /\ pass.op = "arbitrageLive" /\ ~pass.done
    /\ pass' = [pass EXCEPT
                   !.done = TRUE,
                   !.out = OpportunitiesOf("arbitrageLive", pass.varAssets,
                                            pass.data, {}, pass.now)]
    /\ UNCHANGED <<relayVars, waiter, cacheVars, varCall, botVars, extVars,
                   rateCall, fundingCall, timelineCall>>

PassNext == FetchArbitrageDataPass \/ FetchArbitrageDataLive

\* the venues' lists of the passes: VAR lists of up to MaxAssets assets
MaxAssets == 3

VarAssetChoices ==
    {VarAsset(<<"BTC">>, Number(100), Decimal(25, 1000), 8 * HOUR_SECONDS),
     VarAsset(<<"ETH">>, Number(99), Decimal(5, 1000), 4 * HOUR_SECONDS),
     VarAsset(<<"ETH">>, Number(99), Decimal(-30, 1000), 8 * HOUR_SECONDS),
     VarAsset(<<"SOL">>, Number(100), Decimal(25, 1000), 8 * HOUR_SECONDS)}

VarLists ==
    UNION {[1..n -> VarAssetChoices] : n \in 0..MaxAssets}

BTCUSDT(hours) == BinanceItem(<<"BTC", "USDT">>, Number(100), Decimal(1, 10000), hours)
BTCUSDC == BinanceItem(<<"BTC", "USDC">>, Number(99), Decimal(2, 10000), 8)
ETHUSDT == BinanceItem(<<"ETH", "USDT">>, Number(100), Decimal(1, 10000), 0)
USDCUSDT == BinanceItem(<<"USDC", "USDT">>, Number(100), Zero, 8)
XRPUSDT == BinanceItem(<<"XRP", "USDT">>, Number(100), Decimal(1, 10000), 4)

BinanceLists ==
    {<<>>,
     <<BTCUSDT(8), ETHUSDT>>,
     <<BTCUSDT(4), ETHUSDT, XRPUSDT>>,
     <<BTCUSDT(8), BTCUSDC, USDCUSDT>>,
     <<BTCUSDC, BTCUSDT(4), ETHUSDT>>}

\* the assets whose computation raises an error: none or one of them
FaultyOf(varAssets) == {{}} \cup {{i} : i \in 1..Len(varAssets)}

PassNow == 7 * HOUR_MS + 1000

PassInit ==
    /\ RelayInit /\ AppInit
    /\ pass \in
          UNION {{PassArgs("fetchArbitrageData", v, d, f, PassNow) :
                     d \in BinanceLists, f \in FaultyOf(v)} : v \in VarLists}
          \cup {PassArgs("arbitrageLive", v, d, {}, PassNow) :
                    v \in VarLists, d \in BinanceLists}
    /\ rateCall = NoRateCall
    /\ fundingCall = NoFundingCall
    /\ timelineCall = NoTimelineCall

PassSpec == PassInit /\ [][PassNext]_vars

\* ============================================================= Part IV
\* The subscriptions of the Telegram bot (src/src/bot.js): the commands /m
\* and /cancel of handleCommand, and checkAndNotify, which the refresh timer
\* calls with the refreshed list.  A command changes subscriptions before its
\* first await and is one action.  checkAndNotify awaits sendMessage at every
\* push: it runs up to a push in one action and goes on in the next, and
\* commands may run in between.  One call is under way at a time: a refresh
\* outlasting the refresh interval of five minutes is left out.

\* what parsePercent gives a missing argument or one that is no percentage
null == [null |-> TRUE]

\* the value parseFloat gives a string that starts with no number
NaN == [nan |-> TRUE]

DigitChars == <<"0", "1", "2", "3", "4", "5", "6", "7", "8", "9">>

IsDigit(ch) == \E i \in 1..Len(DigitChars) : DigitChars[i] = ch

DigitValue(ch) == (CHOOSE i \in 1..Len(DigitChars) : DigitChars[i] = ch) - 1

\* the digits a string starts with
RECURSIVE LeadingDigits(_)
LeadingDigits(str) ==
    IF str # <<>> /\ IsDigit(Head(str))
    THEN <<Head(str)>> \o LeadingDigits(Tail(str))
    ELSE <<>>

\* the integer a string of digits spells, after the digits read so far
RECURSIVE IntegerOf(_, _)
IntegerOf(digits, read) ==
    IF digits = <<>> THEN read
    ELSE IntegerOf(Tail(digits), 10 * read + DigitValue(Head(digits)))

\* parseFloat of a string of digits and dots: the longest prefix that is a
\* decimal literal (digits, then a dot and digits), as the nearest number;
\* NaN when that prefix has no digit
parseFloat(str) ==
    LET whole == LeadingDigits(str)
        rest == SubSeq(str, Len(whole) + 1, Len(str))
        fraction == IF rest # <<>> /\ Head(rest) = "."
                    THEN LeadingDigits(Tail(rest))
                    ELSE <<>>
    IN  IF whole = <<>> /\ fraction = <<>> THEN NaN
        ELSE Decimal(IntegerOf(whole \o fraction, 0), 10 ^ Len(fraction))

\* parsePercent: null for a missing argument and for one that does not match
\* /^([\d.]+)%?$/, else parseFloat of the digits and dots
parsePercent(str) ==
    LET body == IF str # <<>> /\ str[Len(str)] = "%"
                THEN SubSeq(str, 1, Len(str) - 1)
                ELSE str
    IN  IF body # <<>> /\ \A i \in 1..Len(body) :
                                IsDigit(body[i]) \/ body[i] = "."
        THEN parseFloat(body)
        ELSE null

\* parsePercent of each argument string
Parsed == [str \in ArgStrings |-> parsePercent(str)]

\* the operators <, <= and >= of JavaScript: false when an operand is NaN
LessThan(a, b) == a # NaN /\ b # NaN /\ Less(a, b)

LessOrEqual(a, b) == a # NaN /\ b # NaN /\ (Less(a, b) \/ a = b)

GreaterOrEqual(a, b) == a # NaN /\ b # NaN /\ ~Less(a, b)

\* what checkAndNotify reads of an opportunity
BotOpportunity(symbol, direction, finalProfit) ==
    [symbol |-> symbol, direction |-> direction, finalProfit |-> finalProfit]

\* the opportunities of a refreshed list: with a direction and a daily
\* profit below, between and at the thresholds, or without direction
OpportunityChoices ==
    {BotOpportunity(s, "SHORT_VAR", p) :
        s \in BotSymbols,
        p \in {Decimal(5, 1000), Decimal(3, 100), Decimal(1, 10)}}
    \cup {BotOpportunity(s, "NONE", Zero) : s \in BotSymbols}

\* refreshed lists have up to MaxOpps opportunities
MaxOpps == 1

OpportunityLists == UNION {[1..n -> OpportunityChoices] : n \in 0..MaxOpps}

\* /m <trigger> <exit>
Subscribe ==
    /\ \E chatId \in Chats, triggerStr \in texts, exitStr \in texts :
          LET trigger == Parsed[triggerStr]
              exit == Parsed[exitStr]
          IN
          IF trigger = null \/ exit = null
          THEN /\ botOp' = BotOp("m_format", {}, {})
               /\ UNCHANGED subscriptions
          ELSE IF LessOrEqual(trigger, exit)
          THEN /\ botOp' = BotOp("m_order", {}, {})
               /\ UNCHANGED subscriptions
          ELSE /\ subscriptions' =
                     [subscriptions EXCEPT
                         ![chatId] = [on |-> TRUE, trigger |-> trigger,
                                      exit |-> exit,
                                      triggered |-> subscriptions[chatId].triggered]]
               /\ botOp' = BotOp("m", {}, {})
    /\ UNCHANGED <<relayVars, waiter, cacheVars, varCall, extVars, calcVars,
                   notify, awaiting, texts>>

\* what a call under way holds of a chat once the chat's subscription is
\* deleted: the triggered object as it was
Detached(entry, sub) ==
    IF entry.linked
    THEN [entry EXCEPT !.linked = FALSE, !.orphan = sub.triggered]
    ELSE entry

\* delete subscriptions[chatId]: the triggered object goes with it
CancelSub(sub) == NoSub

\* /cancel
Cancel ==
    /\ \E chatId \in Chats :
          IF subscriptions[chatId].on
          THEN /\ subscriptions' =
                     [subscriptions EXCEPT
                         ![chatId] = CancelSub(subscriptions[chatId])]
               /\ notify' =
                     [notify EXCEPT
                         !.entries[chatId] =
                             Detached(@, subscriptions[chatId])]
               /\ botOp' = BotOp("cancel", {}, {})
          ELSE /\ botOp' = BotOp("cancel_none", {}, {})
               /\ UNCHANGED <<subscriptions, notify>>
    /\ UNCHANGED <<relayVars, waiter, cacheVars, varCall, extVars, calcVars, awaiting,
                   texts>>

\* the triggered object the call works on for a chat
TriggeredOf(subs, run, chatId) ==
    IF run.entries[chatId].linked THEN subs[chatId].triggered
    ELSE run.entries[chatId].orphan

\* that object with a symbol added or deleted
WithTriggered(st, chatId, triggered) ==
    IF st.run.entries[chatId].linked
    THEN [st EXCEPT !.subs[chatId].triggered = triggered]
    ELSE [st EXCEPT !.run.entries[chatId].orphan = triggered]

\* checkAndNotify from where it stands up to its next await, or to its end:
\* st is subscriptions, the call, the push it awaits and, at its end, the
\* due pairs it did not push
RECURSIVE RunOn(_)
RunOn(st) ==
    IF st.run.chats = <<>>
    THEN [st EXCEPT !.run = NoRun, !.missed = st.run.due]
    ELSE LET chatId == Head(st.run.chats)
             sub == st.run.entries[chatId]
             triggered == TriggeredOf(st.subs, st.run, chatId)
         IN  IF st.run.rest = <<>>
             THEN RunOn([st EXCEPT !.run.chats = Tail(@),
                                   !.run.rest = st.run.opps])
             ELSE LET opp == Head(st.run.rest)
                      next == [st EXCEPT !.run.rest = Tail(@)]
                  IN  IF opp.direction = "NONE" THEN RunOn(next)
                      ELSE IF opp.symbol \in triggered
                      THEN IF LessThan(opp.finalProfit, sub.exit)
                           THEN RunOn(WithTriggered(next, chatId,
                                          triggered \ {opp.symbol}))
                           ELSE RunOn(next)
                      ELSE IF GreaterOrEqual(opp.finalProfit, sub.trigger)
                      THEN [WithTriggered(next, chatId,
                                          triggered \cup {opp.symbol})
                               EXCEPT !.run.pc = "awaiting",
                                      !.run.due = @ \ {<<chatId, opp.symbol>>},
                                      !.push = {<<chatId, opp.symbol>>}]
                      ELSE RunOn(next)

\* the ascending sequence of a set of chats: Object.entries lists integer
\* keys in ascending order
RECURSIVE Ascending(_)
Ascending(set) ==
    IF set = {} THEN <<>>
    ELSE LET least == CHOOSE c \in set : \A d \in set : c <= d
         IN  <<least>> \o Ascending(set \ {least})

\* the entries of Object.entries(subscriptions)
EntriesOf(subs) ==
    [c \in Chats |->
        IF subs[c].on
        THEN [trigger |-> subs[c].trigger, exit |-> subs[c].exit,
              linked |-> TRUE, orphan |-> {}]
        ELSE NoEntry]

\* the <<chat, symbol>> a cycle's list shows below the exit threshold the
\* cycle holds for the chat
Exited(run) ==
    {<<ck[1], run.opps[ck[2]].symbol>> :
        ck \in {dl \in Chats \X (1..Len(run.opps)) :
                  /\ \E k \in 1..Len(run.chats) : run.chats[k] = dl[1]
                  /\ LessThan(run.opps[dl[2]].finalProfit,
                          run.entries[dl[1]].exit)}}

\* the <<chat, symbol>> due a push in a cycle: the chat is subscribed, the
\* list shows the symbol at or above the chat's trigger threshold, and no
\* push for the pair is awaiting its exit
Due(subs, pending, opps) ==
    {<<ck[1], opps[ck[2]].symbol>> :
        ck \in {dl \in Chats \X (1..Len(opps)) :
                  /\ subs[dl[1]].on
                  /\ <<dl[1], opps[dl[2]].symbol>> \notin pending
                  /\ GreaterOrEqual(opps[dl[2]].finalProfit,
                                    subs[dl[1]].trigger)}}

\* checkAndNotify(opportunities), up to its first await
CheckAndNotify ==
    /\ notify.pc = "idle"
    /\ \E opps \in OpportunityLists :
          LET run == [pc |-> "running", opps |-> opps,
                      chats |-> Ascending({c \in Chats :
                                              subscriptions[c].on}),
                      rest |-> opps,
                      entries |-> EntriesOf(subscriptions),
                      due |-> Due(subscriptions, awaiting, opps)]
              st == RunOn([subs |-> subscriptions, run |-> run,
                           push |-> {}, missed |-> {}])
              exited == Exited(run)
          IN  /\ subscriptions' = st.subs
              /\ notify' = st.run
              /\ awaiting' = (awaiting \cup st.push) \ exited
              /\ botOp' = BotOp("checkAndNotify", st.push, st.missed)
    /\ UNCHANGED <<relayVars, waiter, cacheVars, varCall, extVars, calcVars, texts>>

\* sendMessage settled: checkAndNotify goes on
NotifyResume ==
    /\ notify.pc = "awaiting"
    /\ LET st == RunOn([subs |-> subscriptions,
                        run |-> [notify EXCEPT !.pc = "running"],
                        push |-> {}, missed |-> {}])
       IN  /\ subscriptions' = st.subs
           /\ notify' = st.run
           /\ awaiting' = (awaiting \cup st.push) \ Exited(notify)
           /\ botOp' = BotOp("resume", st.push, st.missed)
    /\ UNCHANGED <<relayVars, waiter, cacheVars, varCall, extVars, calcVars, texts>>

BotNext == Subscribe \/ Cancel \/ CheckAndNotify \/ NotifyResume

BotSpec == Init /\ [][BotNext]_vars

\* the commands alone, sent with every argument of ArgStrings
CommandInit == RelayInit /\ AppStart(ArgStrings) /\ CalcIdle

CommandNext == Subscribe \/ Cancel

CommandSpec == CommandInit /\ [][CommandNext]_vars

\* ------------------------------------------------- the background worker
\* src/unnamed/part_002.  The worker is single threaded, each handler is one
\* action.  The heartbeat is not timed here: the ping interval fires at any
\* moment while it is armed, except that PONG_TIMEOUT (15 s) is shorter than
\* PING_INTERVAL (20 s), so a pong timeout has fired or been cleared before
\* the next ping.  A socket's close event is dispatched once, whatever closed
\* it: a failed connection (CONNECTING), the peer closing or the server
\* terminating (OPEN), the worker's own ws.close() (CLOSING).

\* clearTimers()
clearTimers(w) == [w EXCEPT !.pingTimer = FALSE, !.pongTimer = FALSE]

\* startPingPong(), without the interval's callback (WorkerPing below)
startPingPong(w) ==
    [clearTimers(w) EXCEPT !.isAlive = TRUE, !.pingTimer = TRUE]

\* a worker that stops at maxReconnectAttempts
tryReconnectBounded(w) ==
    IF w.reconnectAttempts + 1 <= maxReconnectAttempts
    THEN [w EXCEPT !.reconnectAttempts = @ + 1,
                   !.timers = Append(@, Min(w.reconnectAttempts, 10))]
    ELSE [w EXCEPT !.reconnectAttempts = @ + 1]

\* tryReconnect(): the delay is min(3000 * 1.5^k, 60000) ms with
\* k = min(reconnectAttempts - 1, 10) after the increment; the timer is
\* recorded by k.  The comparison with maxReconnectAttempts chooses between
\* two log lines only.
tryReconnect(w) ==
    [w EXCEPT !.reconnectAttempts = @ + 1,
              !.timers = Append(@, Min(w.reconnectAttempts, 10))]

\* ws.close(): starts the closing handshake of the socket ws refers to, and
\* does nothing on a socket that is closing or closed
wsClose(w) ==
    IF w.ws # 0 /\ w.live[w.ws] \in {"CONNECTING", "OPEN"}
    THEN [w EXCEPT !.live[w.ws] = "CLOSING"]
    ELSE w

\* the close event of socket i has been dispatched: the socket is CLOSED
Closed(w, i) ==
    [w EXCEPT !.live = SubSeq(@, 1, i - 1) \o SubSeq(@, i + 1, Len(@)),
              !.ws = IF @ = i THEN 0 ELSE IF @ > i THEN @ - 1 ELSE @]

\* the timer at place t of the outstanding reconnect timers has fired
Fired(w, t) ==
    [w EXCEPT !.timers = SubSeq(@, 1, t - 1) \o SubSeq(@, t + 1, Len(@))]

\* sockets and reconnect timers outstanding
Outstanding(w) == Len(w.live) + Len(w.timers)

\* connect() run by a reconnect timer, the constructor returning a socket
Connect ==
    /\ \E t \in 1..Len(worker.timers) :
          worker' = [Fired(worker, t) EXCEPT
                        !.live = Append(@, "CONNECTING"),
                        !.ws = Len(worker.live) + 1]
    /\ workerOp' = WorkerOp("connect", "none", 0)
    /\ UNCHANGED <<relayVars, waiter, cacheVars, varCall, calcVars, botVars,
                   proxy>>

\* connect() run by a reconnect timer, the constructor throwing
ConnectThrows ==
    /\ worker.reconnectAttempts < MaxAttempts
    /\ \E t \in 1..Len(worker.timers) :
          /\ worker' = tryReconnect(Fired(worker, t))
          /\ workerOp' = WorkerOp("connectThrows", "none",
                            Len(worker'.timers) - Len(Fired(worker, t).timers))
    /\ UNCHANGED <<relayVars, waiter, cacheVars, varCall, calcVars, botVars,
                   proxy>>

\* ws.onopen of socket i
OnOpen(i) ==
    /\ worker.live[i] = "CONNECTING"
    /\ worker' = startPingPong([worker EXCEPT !.live[i] = "OPEN",
                                              !.reconnectAttempts = 0])
    /\ workerOp' = WorkerOp("open", "CONNECTING", 0)
    /\ UNCHANGED <<relayVars, waiter, cacheVars, varCall, calcVars, botVars,
                   proxy>>

\* ws.onclose of socket i
OnClose(i) ==
    /\ worker.reconnectAttempts < MaxAttempts
    /\ worker' = tryReconnect(clearTimers(Closed(worker, i)))
    /\ workerOp' = WorkerOp("close", worker.live[i],
                            Len(worker'.timers) - Len(worker.timers))
    /\ UNCHANGED <<relayVars, waiter, cacheVars, varCall, calcVars, botVars,
                   proxy>>

\* the callback of the ping interval
WorkerPing ==
    /\ worker.pingTimer /\ ~worker.pongTimer
    /\ worker' = IF worker.ws = 0 \/ worker.live[worker.ws] # "OPEN"
                 THEN clearTimers(worker)
                 ELSE [worker EXCEPT !.pongTimer = TRUE, !.isAlive = FALSE]
    /\ workerOp' = WorkerOp("ping", "none", 0)
    /\ UNCHANGED <<relayVars, waiter, cacheVars, varCall, calcVars, botVars,
                   proxy>>

\* ws.onmessage of socket i with a pong frame
OnPong(i) ==
    /\ worker.live[i] \in {"OPEN", "CLOSING"}
    /\ worker' = [worker EXCEPT !.isAlive = TRUE, !.pongTimer = FALSE]
    /\ workerOp' = WorkerOp("pong", worker.live[i], 0)
    /\ UNCHANGED <<relayVars, waiter, cacheVars, varCall, calcVars, botVars,
                   proxy>>

\* the callback of the pong timeout
WorkerPongTimeout ==
    /\ worker.pongTimer
    /\ worker' = IF ~worker.isAlive
                 THEN wsClose(clearTimers(worker))
                 ELSE [worker EXCEPT !.pongTimer = FALSE]
    /\ workerOp' = WorkerOp("pongTimeout", "none", 0)
    /\ UNCHANGED <<relayVars, waiter, cacheVars, varCall, calcVars, botVars,
                   proxy>>

WorkerNext ==
    \/ Connect
    \/ ConnectThrows
    \/ \E i \in 1..Len(worker.live) : OnOpen(i)
    \/ \E i \in 1..Len(worker.live) : OnClose(i)
    \/ WorkerPing
    \/ \E i \in 1..Len(worker.live) : OnPong(i)
    \/ WorkerPongTimeout

WorkerSpec == Init /\ [][WorkerNext]_vars

\* --------------------------------------------------- the page-side proxy
\* src/extension/inject.js.  handleRpcRequest is an async function: it runs
\* to its await of doFetch in one step (HandleRpcRequest) and goes on when
\* the fetch has settled (FetchSettles); calls under way interleave.  A call
\* is recorded with its frame, where it is (pc: "fetching", "done", or
\* "rejected" when the handler itself threw after responding) and how its
\* fetch ended; a frame posted to the server carries the place of the call
\* that posted it (req).

\* the rpc_request frames: params is an object with a url, or is missing
RpcRequests == [id : Ids, method : {"fetch", "eval"},
                params : {"url", "undefined"}]

\* how a fetch ends: a 2xx reply whose body is read, a reply that is not
\* 2xx, a rejected fetch, a 2xx reply whose body cannot be read
Outcomes == {"ok", "status", "network", "body"}

\* a doFetch that returns the body whatever the status
doFetchAnyStatus(outcome) ==
    IF outcome \in {"ok", "status"}
    THEN [threw |-> FALSE, value |-> "body"]
    ELSE [threw |-> TRUE, value |-> "TypeError"]

\* doFetch(url, options), by what it returns or throws
doFetch(outcome) ==
    CASE outcome = "ok" -> [threw |-> FALSE, value |-> "body"]
      [] outcome = "status" -> [threw |-> TRUE, value |-> "HTTP"]
      [] outcome = "network" -> [threw |-> TRUE, value |-> "TypeError"]
      [] outcome = "body" -> [threw |-> TRUE, value |-> "SyntaxError"]

\* sendToServer({ type: 'rpc_response', id, result })
rpcResult(r, id, result) ==
    [type |-> "rpc_response", req |-> r, id |-> id, result |-> result,
     error |-> "absent"]

\* sendToServer({ type: 'rpc_response', id, error: e.message })
rpcError(r, id, message) ==
    [type |-> "rpc_response", req |-> r, id |-> id, result |-> "absent",
     error |-> message]

\* the catch block: the error frame is posted, then the log line reads
\* params.url, which throws when params is missing
Caught(p, r, msg, message) ==
    [p EXCEPT !.sent = Append(@, rpcError(r, msg.id, message)),
              !.requests[r].pc = IF msg.params = "undefined"
                                 THEN "rejected" ELSE "done"]

\* a call as it is first recorded
RpcCall(msg) == [msg |-> msg, pc |-> "fetching", outcome |-> "none"]

\* handleRpcRequest(msg) up to its await
HandleRpcRequest(msg) ==
    /\ Len(proxy.requests) < MaxRpc
    /\ LET r == Len(proxy.requests) + 1
           p == [proxy EXCEPT !.requests = Append(@, RpcCall(msg))]
       IN  proxy' =
              CASE msg.method # "fetch" -> Caught(p, r, msg, "Unknown method")
                [] msg.method = "fetch" /\ msg.params = "undefined" ->
                      Caught(p, r, msg, "TypeError")
                [] OTHER -> p
    /\ UNCHANGED <<relayVars, waiter, cacheVars, varCall, calcVars, botVars,
                   worker, workerOp>>

\* handleRpcRequest after its await: the fetch of call r has settled
FetchSettles(r, outcome) ==
    /\ proxy.requests[r].pc = "fetching"
    /\ LET msg == proxy.requests[r].msg
           got == doFetch(outcome)
           p == [proxy EXCEPT !.requests[r].outcome = outcome]
       IN  proxy' =
              IF got.threw
              THEN Caught(p, r, msg, got.value)
              ELSE [p EXCEPT !.sent = Append(@, rpcResult(r, msg.id, got.value)),
                             !.requests[r].pc = "done"]
    /\ UNCHANGED <<relayVars, waiter, cacheVars, varCall, calcVars, botVars,
                   worker, workerOp>>

ProxyNext ==
    \/ \E msg \in RpcRequests : HandleRpcRequest(msg)
    \/ \E r \in 1..Len(proxy.requests), outcome \in Outcomes :
          FetchSettles(r, outcome)

ProxySpec == Init /\ [][ProxyNext]_vars

\* ------------------------------------------------------------------ claims

\* C1: a socket adopted by superseding a live connection stays adopted, with
\* its ping timer armed, in every later state for as long as it is open.
C1_SupersederStaysAdopted ==
    [][\A s \in superseder :
          (browserClient = s /\ readyState[s] = "OPEN" /\ readyState'[s] = "OPEN")
          => (browserClient' = s /\ pingTimer'.ws = s)]_vars

\* C2: a registered call is settled at most once; it is settled exactly once
\* as soon as it has left the pending map, and not at all while it is in it.
C2_SettledExactlyOnce ==
    \A i \in Ids :
        /\ settleCalls[i] <= 1
        /\ i \in pendingRequests
              => (settleCalls[i] = 0 /\ promise[i] = Unsettled)
        /\ (issued[i] > 0 /\ i \notin pendingRequests)
              => (settleCalls[i] = 1 /\ promise[i] # Unsettled)

\* an rpc_response for a call arrives after the close event rejected the call
C2_Witness ==
    \E i \in Ids :
        /\ promise[i] = Disconnected
        /\ settleCalls[i] = 1
        /\ lastOp = Op("rpc_response", i, << >>)

\* C3: the close event of the adopted connection leaves the slot null, the
\* heartbeat timers cleared and the pending map empty, and has rejected every
\* request that was pending with 'Browser disconnected', each exactly once.
C3_CloseDrainsAll ==
    [][\A s \in Sockets :
          (browserClient = s /\ readyState[s] # "CLOSED" /\ readyState'[s] = "CLOSED")
          => /\ browserClient' = NULL
             /\ pingTimer' = NoPing
             /\ pongTimer' = NoPong
             /\ orphanPong' = {}
             /\ pendingRequests' = {}
             /\ DOMAIN callTimers' = {}
             /\ \A i \in pendingRequests :
                   /\ promise'[i] = Disconnected
                   /\ settleCalls[i] = 0
                   /\ settleCalls'[i] = 1]_vars

\* the adopted connection closed with two requests pending
C3_Witness ==
    /\ lastOp.op = "close"
    /\ browserClient = NULL
    /\ pendingRequests = {}
    /\ Cardinality({i \in Ids : promise[i] = Disconnected}) >= 2

\* the response frames a call can be settled with
ResponseOutcomes ==
    {IF msg.error # "absent" /\ msg.error # ""
     THEN [kind |-> "rejected", val |-> msg.error]
     ELSE [kind |-> "resolved", val |-> msg.result] : msg \in Payloads}

\* C4: browserFetch called while the slot is null or its socket is not open
\* rejects at once and changes nothing: no id is consumed, no entry or timer
\* is created and no frame is sent.
C4_NotConnectedRejects ==
    [][(~isBrowserConnected
          /\ lastOp'.op \in {"browserFetch", "browserFetch:notConnected"})
       => /\ lastOp' = Op("browserFetch:notConnected", NULL, << >>)
          /\ UNCHANGED relayState]_vars

\* browserFetch was rejected while the adopted socket is closing
C4_Witness ==
    /\ lastOp.op = "browserFetch:notConnected"
    /\ browserClient # NULL
    /\ readyState[browserClient] = "CLOSING"
    /\ requestId > 0

\* C5: an rpc_response with id i settles the call i, if it is pending, with
\* the frame's own result or error and removes it; it neither settles nor
\* removes any call j # i, whatever the order of the responses.
C5_CorrelatedById ==
    [][\A i \in Ids :
          lastOp' = Op("rpc_response", i, << >>)
          => /\ \A j \in Ids \ {i} :
                   /\ promise'[j] = promise[j]
                   /\ settleCalls'[j] = settleCalls[j]
                   /\ (j \in pendingRequests') = (j \in pendingRequests)
                   /\ (j \in DOMAIN callTimers') = (j \in DOMAIN callTimers)
             /\ i \in pendingRequests
                   => /\ i \notin pendingRequests'
                      /\ promise'[i] \in ResponseOutcomes
                      /\ settleCalls'[i] = settleCalls[i] + 1]_vars

\* the later call was answered while the earlier call is still in flight
C5_Witness ==
    \E i, j \in Ids :
        /\ i < j
        /\ i \in pendingRequests
        /\ promise[j] \in ResponseOutcomes
        /\ lastOp = Op("rpc_response", j, << >>)

\* C6: a call is registered with a timer of 30 s; the timer rejects the call
\* with the timeout error and removes its id from the map; an rpc_response for
\* that id arriving afterwards changes nothing: slot, map, timers and every
\* call stay as they are.
C6_LateResponseDropped ==
    [][\A i \in Ids :
          /\ lastOp' = Op("browserFetch", i, <<Frame(browserClient, "rpc_request", i)>>)
                => (i \in DOMAIN callTimers' /\ callTimers'[i] = DEFAULT_TIMEOUT)
          /\ lastOp' = Op("call_timeout", i, << >>)
                => (promise'[i] = TimedOut /\ i \notin pendingRequests')
          /\ (promise[i] = TimedOut /\ lastOp' = Op("rpc_response", i, << >>))
                => UNCHANGED relayState]_vars

\* a response for a timed-out call arrived while another call is pending
C6_Witness ==
    \E i \in Ids :
        /\ promise[i] = TimedOut
        /\ lastOp = Op("rpc_response", i, << >>)
        /\ pendingRequests # {}
        /\ isBrowserConnected

\* C7: a call in the pending map has its per-call timer armed, and every call
\* in the map is eventually settled and removed from it, whatever the browser
\* does: the timer fires at the latest.
C7_EventuallySettled ==
    /\ [](\A i \in pendingRequests : i \in DOMAIN callTimers)
    /\ \A i \in Ids :
          (i \in pendingRequests) ~> (i \notin pendingRequests /\ settleCalls[i] = 1)

\* a call timed out while the close event of a superseded socket is outstanding
C7_Witness ==
    \E i \in Ids :
        /\ promise[i] = TimedOut
        /\ lastOp = Op("call_timeout", i, << >>)
        /\ browserClient \in superseder
        /\ \E s \in terminated : readyState[s] = "CLOSING"

\* C8: request ids are allocated in strictly increasing order for the whole
\* life of the relay: the ids given out are exactly 1..requestId, each to one
\* call, and the pending map holds only such ids.
C8_IdsNeverReused ==
    /\ \A i \in Ids : issued[i] = (IF i <= requestId THEN 1 ELSE 0)
    /\ pendingRequests \subseteq 1..requestId

\* a second id was allocated on a new connection after a disconnect
C8_Witness ==
    /\ requestId >= 2
    /\ promise[1] = Disconnected
    /\ lastOp.op = "browserFetch"
    /\ lastOp.id = requestId
    /\ \E s \in Sockets : readyState[s] = "CLOSED"

\* C9: a per-call timer is armed exactly for the ids in the pending map.
C9_TimersMatchPending ==
    DOMAIN callTimers = pendingRequests

\* one call was settled by an rpc_response, another by a disconnect or by its
\* timer
C9_Witness ==
    \E i, j \in Ids :
        /\ promise[i] \in ResponseOutcomes
        /\ promise[j] \in {Disconnected, TimedOut}
        /\ pendingRequests = {}

\* C10: a socket whose server ping is not answered by a pong is terminated
\* before a full ping interval has passed: it is no longer open by the time
\* the next ping would be sent.
C10_UnansweredPingCloses ==
    (lastPing # NoneOutstanding /\ readyState[lastPing.ws] = "OPEN")
        => lastPing.elapsed < PING_INTERVAL

\* C11: a pong sets the liveness flag and disarms the pong timer without
\* touching any socket; the pong-timeout callback terminates nothing while the
\* flag is true; and the heartbeat terminates only a socket whose last ping
\* has been unanswered for the whole pong timeout.
C11_AnsweredNeverTerminated ==
    [][/\ lastOp'.op = "pong"
             => (isAlive' /\ pongTimer' = NoPong
                 /\ UNCHANGED <<readyState, terminated>>)
       /\ (lastOp'.op = "pong_timeout" /\ isAlive)
             => UNCHANGED <<readyState, terminated>>
       /\ \A s \in Sockets :
             (lastOp'.op = "pong_timeout" /\ s \in terminated' \ terminated)
             => (lastPing.ws = s /\ lastPing.elapsed >= PONG_TIMEOUT)]_vars

\* the pong arrived at the last moment of the pong timeout: the socket stays
\* open and adopted, the next ping is due in Step ms
C11_Witness ==
    /\ lastOp.op = "pong"
    /\ isBrowserConnected
    /\ lastPing = NoneOutstanding
    /\ pongTimer = NoPong
    /\ pingTimer.ws = browserClient
    /\ pingTimer.left = Step

\* C12: a waitForBrowser call that was given a timeout is rejected by the time
\* the timeout has elapsed without an open connection; a call without a
\* timeout is never rejected, and a resolved call has seen the browser open.
C12_WaitTimesOut ==
    /\ (waiter.arg > 0 /\ waiter.elapsed >= waiter.arg) => waiter.st = "rejected"
    /\ waiter.arg = 0 => waiter.st # "rejected"

\* C13: a ping frame of the client is answered with exactly one pong, sent on
\* the open socket the ping came in on, and changes nothing else: liveness
\* flag, timers, connection slot, pending map and calls stay as they are.
C13_ClientPingAnswered ==
    [][lastOp'.op = "ping"
          => /\ Len(lastOp'.sent) = 1
             /\ lastOp'.sent[1].type = "pong"
             /\ lastOp'.sent[1].to \in Sockets
             /\ readyState[lastOp'.sent[1].to] = "OPEN"
             /\ UNCHANGED relayState]_vars

\* the client's ping was answered while a server ping and a call are pending
C13_Witness ==
    /\ lastOp.op = "ping"
    /\ lastPing # NoneOutstanding
    /\ pongTimer # NoPong
    /\ pongTimer.live
    /\ ~isAlive
    /\ pendingRequests # {}

\* C14: a frame that is not JSON or of an unknown type, and an rpc_response
\* whose id is not in the pending map, change nothing: slot, heartbeat,
\* pending map and calls stay as they are and the socket stays open.
C14_BadFrameDropped ==
    [][(\/ lastOp'.op = "bad_frame"
        \/ \E i \in Ids : lastOp' = Op("rpc_response", i, << >>)
                            /\ i \notin pendingRequests)
          => UNCHANGED relayState]_vars

\* a malformed frame was dropped on the adopted connection while a call is
\* pending and a server ping is outstanding
C14_Witness ==
    /\ lastOp.op = "bad_frame"
    /\ isBrowserConnected
    /\ pendingRequests # {}
    /\ pongTimer # NoPong
    /\ pongTimer.live

\* C15: an error event of a socket settles no call and leaves slot, timers
\* and pending map unchanged; a call is rejected as disconnected only by a
\* close event.
C15_ErrorSettlesNothing ==
    [][/\ lastOp'.op = "error" => UNCHANGED relayState
       /\ \A i \in Ids :
             (promise'[i] = Disconnected /\ promise[i] # Disconnected)
             => lastOp'.op = "close"]_vars

\* an error event on the adopted, open connection while calls are pending
C15_Witness ==
    /\ lastOp.op = "error"
    /\ isBrowserConnected
    /\ pingTimer.ws = browserClient
    /\ Cardinality(pendingRequests) >= 2

\* C16: of two fetchArbitrageData calls issued less than CACHE_TTL apart at
\* most one retrieves the venues, and when both have returned they returned
\* the same array.
C16_OneRetrievalPerWindow ==
    \A c1, c2 \in Calls :
        (/\ c1 < c2
         /\ calls[c2].pc # "idle"
         /\ calls[c1].age < CACHE_TTL
         /\ calls[c1].age - calls[c2].age < CACHE_TTL)
        => /\ ~(calls[c1].upstream /\ calls[c2].upstream)
           /\ (calls[c1].pc = "returned" /\ calls[c2].pc = "returned")
                 => calls[c1].ret = calls[c2].ret

\* C18: a refresh in which exactly one venue retrieval failed while a cached
\* list exists returns that cached list and leaves the cache (list and fetch
\* time) as it is; the other retrieval has run to its own end.
C18_OneFailureKeepsCache ==
    [][\A c \in Calls :
          (/\ cacheOp'.op = "done"
           /\ cacheOp'.c = c
           /\ cacheOp'.var.ok # cacheOp'.bin.ok
           /\ cachedData # NoList)
          => /\ calls'[c].pc = "returned"
             /\ calls'[c].ret = cachedData
             /\ cachedData' = cachedData
             /\ cacheAge' = cacheAge
             /\ cacheOp'.bin = calls[c].bin]_vars

\* the Binance retrieval failed, the VAR retrieval returned assets, and the
\* refresh returned the list another call had cached
C18_Witness ==
    \E c \in Calls :
        /\ cacheOp.op = "done"
        /\ cacheOp.c = c
        /\ ~cacheOp.bin.ok
        /\ cacheOp.var.ok
        /\ cacheOp.var.list # {}
        /\ calls[c].ret = cachedData
        /\ cachedData # NoList
        /\ cachedData.id # c

\* C19: a refresh throws only in the full-failure case: both venues yielded
\* no data and no cached list exists.
C19_ThrowsOnlyWithoutCache ==
    [][\A c \in Calls :
          (cacheOp'.op = "done" /\ cacheOp'.c = c /\ calls'[c].pc = "rejected")
          => /\ cachedData = NoList
             /\ cacheOp'.var.list = {}
             /\ cacheOp'.bin.list = {}]_vars

\* C20: a refresh without a cached list in which both venue retrievals failed
\* throws and leaves the cache null, and the JSON endpoint answers it with
\* status 500 and an error payload.
C20_FullFailureIsAnError ==
    [][\A c \in Calls :
          (/\ cacheOp'.op = "done"
           /\ cacheOp'.c = c
           /\ ~cacheOp'.var.ok
           /\ ~cacheOp'.bin.ok
           /\ cachedData = NoList)
          => /\ calls'[c].pc = "rejected"
             /\ cachedData' = NoList
             /\ calls[c].by = "api"
                   => calls'[c].answer = [status |-> 500, body |-> "error"]]_vars

\* the JSON endpoint answered 500 after both retrievals had failed with no
\* cache
C20_Witness ==
    \E c \in Calls :
        /\ cacheOp = CacheOp("done", c, Failed, Failed)
        /\ cachedData = NoList
        /\ calls[c].by = "api"
        /\ calls[c].pc = "rejected"
        /\ calls[c].answer.status = 500

\* C17: a getVariationalAssets call makes at most maxRetries browserFetch
\* attempts and is rejected only after maxRetries failed attempts, with the
\* last error; and a call comes to an end also when the browser stays
\* disconnected for the whole time.
C17_RetriesAreBounded ==
    /\ [](varCall.fetches <= maxRetries)
    /\ [](varCall.pc = "rejected"
            => (varCall.fetches = maxRetries /\ varCall.lastError # "none"))
    /\ ([]~isBrowserConnected)
          => ((varCall.pc \notin {"idle", "fulfilled", "rejected"})
                 ~> (varCall.pc \in {"fulfilled", "rejected"}))

\* C29 as amended: taking a rate to another interval and back, and taking a
\* daily rate to a day, give the rate again to within eight roundings of
\* the arithmetic (four operations on the way there and back).
C29_RoundTripWithinRounding ==
    /\ (rateCall.op = "normalizeRate" /\ rateCall.done)
          => Within(rateCall.back, rateCall.rate, 3)
    /\ (rateCall.op = "toDailyRate" /\ rateCall.done
            /\ rateCall.from = DAY_SECONDS)
          => Within(rateCall.out, rateCall.rate, 3)

\* a rate went to another interval and came back changed in its last bits
C29_Witness ==
    /\ rateCall.op = "normalizeRate" /\ rateCall.done
    /\ rateCall.from # rateCall.to
    /\ rateCall.back # rateCall.rate
    /\ Within(rateCall.back, rateCall.rate, 3)

\* C29 as stated: the round trip and the daily rate of a daily rate are the
\* rate itself.
C29_RoundTripExact ==
    /\ (rateCall.op = "normalizeRate" /\ rateCall.done)
          => rateCall.back = rateCall.rate
    /\ (rateCall.op = "toDailyRate" /\ rateCall.done
            /\ rateCall.from = DAY_SECONDS)
          => rateCall.out = rateCall.rate

\* C28: getNextFundingTime(now, interval) returns an instant after now and
\* no later than now + interval that lies a positive whole number of intervals
\* after the UTC midnight of now's day.
C28_NextFundingTimeAligned ==
    (fundingCall.op = "getNextFundingTime" /\ fundingCall.done)
    => LET now == fundingCall.now
           intervalMs == fundingCall.interval * 1000
           midnight == now - (now % DAY_MS)
           t == fundingCall.out
       IN  /\ now < t
           /\ t <= now + intervalMs
           /\ t > midnight
           /\ (t - midnight) % intervalMs = 0

\* a call made exactly on a settlement instant that is not midnight
C28_Witness ==
    /\ fundingCall.op = "getNextFundingTime" /\ fundingCall.done
    /\ fundingCall.now % DAY_MS # 0
    /\ (fundingCall.now % DAY_MS) % (fundingCall.interval * 1000) = 0
    /\ fundingCall.out = fundingCall.now + fundingCall.interval * 1000

\* C25: the finalProfit of a timeline is its lockedSpreadProfit plus the
\* netFunding of all its rows, and is the cumulativeProfit of its last row.
C25_FinalProfitIsTheSum ==
    timelineCall.done
    => LET out == timelineCall.out
       IN  /\ out.finalProfit
                 = PlusNetFunding(out.lockedSpreadProfit, out.timeline, 1)
           /\ out.finalProfit
                 = out.timeline[Len(out.timeline)].cumulativeProfit

\* a timeline with a locked spread and settlements of both venues that
\* changed the profit
C25_Witness ==
    /\ timelineCall.done
    /\ timelineCall.out.lockedSpreadProfit # Zero
    /\ RowsOf(timelineCall.out.timeline, "VAR") # {}
    /\ RowsOf(timelineCall.out.timeline, "BINANCE") # {}
    /\ timelineCall.out.finalProfit # timelineCall.out.lockedSpreadProfit

\* C26: with direction NONE the timeline has lockedSpreadProfit 0 and
\* finalProfit 0, and every settlement row has varFunding, binanceFunding,
\* netFunding and cumulativeProfit 0.
C26_NoneIsAllZero ==
    (timelineCall.done /\ timelineCall.params.direction = "NONE")
    => LET out == timelineCall.out
       IN  /\ out.lockedSpreadProfit = Zero
           /\ out.finalProfit = Zero
           /\ \A i \in 2..Len(out.timeline) :
                 /\ out.timeline[i].varFunding = Zero
                 /\ out.timeline[i].binanceFunding = Zero
                 /\ out.timeline[i].netFunding = Zero
                 /\ out.timeline[i].cumulativeProfit = Zero

\* direction NONE with different prices, rates that are not 0 and
\* settlements of both venues
C26_Witness ==
    /\ timelineCall.done /\ timelineCall.params.direction = "NONE"
    /\ timelineCall.params.varPrice # timelineCall.params.binancePrice
    /\ timelineCall.params.varRate # Zero
    /\ timelineCall.params.binanceRate # Zero
    /\ RowsOf(timelineCall.out.timeline, "VAR") # {}
    /\ RowsOf(timelineCall.out.timeline, "BINANCE") # {}

\* C27: over one day, with VAR settling every 3600 s and Binance every
\* 28800 s, the timeline has 24 VAR rows and 3 Binance rows whatever now is.
C27_EventCounts ==
    (/\ timelineCall.done
     /\ timelineCall.params.simulateDays = 1
     /\ timelineCall.params.varInterval = HOUR_SECONDS
     /\ timelineCall.params.binanceInterval = 8 * HOUR_SECONDS)
    => /\ Cardinality(RowsOf(timelineCall.out.timeline, "VAR")) = 24
       /\ Cardinality(RowsOf(timelineCall.out.timeline, "BINANCE")) = 3

\* such a timeline made exactly on a settlement instant of both venues: its
\* last row is a settlement at the very end of the day simulated
C27_Witness ==
    /\ timelineCall.done
    /\ timelineCall.params.simulateDays = 1
    /\ timelineCall.params.varInterval = HOUR_SECONDS
    /\ timelineCall.params.binanceInterval = 8 * HOUR_SECONDS
    /\ timelineCall.now % (8 * HOUR_MS) = 0
    /\ timelineCall.out.timeline[Len(timelineCall.out.timeline)].time
          = timelineCall.now + DAY_MS

\* C21: the direction of every opportunity follows from both venues' rates
\* taken to 8 hours: SHORT_VAR when the VAR rate exceeds the Binance rate by
\* more than 0.01, SHORT_BINANCE when it is lower by more than 0.01, NONE
\* otherwise, whatever the funding interval of Binance.
C21_DirectionFrom8hRates ==
    (pass.done /\ pass.op = "fetchArbitrageData")
    => \A k \in 1..Len(pass.out) :
          LET o == pass.out[k]
              diff == Minus(to8HourRate(o.varRate, o.varInterval),
                            to8HourRate(o.binanceRate, o.binanceInterval))
          IN  /\ o.direction = "SHORT_VAR" <=> Greater(diff, Decimal(1, 100))
              /\ o.direction = "SHORT_BINANCE"
                    <=> Less(diff, Negate(Decimal(1, 100)))
              /\ o.direction \in Directions

\* the symbol of a Binance item without its USDT or USDC suffix
StripSuffix(sym) ==
    IF sym # <<>> /\ sym[Len(sym)] \in {"USDT", "USDC"}
    THEN SubSeq(sym, 1, Len(sym) - 1) ELSE sym

\* the opportunities of a list that come from the VAR asset at index i
FromAsset(list, i) == {k \in 1..Len(list) : list[k].asset = i}

\* the VAR asset at index i has its symbol among those of Binance
Matched(i) ==
    pass.varAssets[i].symbol
        \in {StripSuffix(pass.data[j].symbol) : j \in 1..Len(pass.data)}

KeyOf(o) == SortKey(pass.op, o)

\* C23: the list is in the order of non-increasing |timeline.finalProfit|
\* (|annualDiff| in arbitrageLive.js), and opportunities of equal keys are
\* in the order of their VAR assets.
C23_SortedStable ==
    pass.done
    => \A k, l \in 1..Len(pass.out) :
          k < l => /\ ~Less(KeyOf(pass.out[k]), KeyOf(pass.out[l]))
                   /\ KeyOf(pass.out[k]) = KeyOf(pass.out[l])
                         => pass.out[k].asset < pass.out[l].asset

\* a list of three that the sort reordered and that has two equal keys
C23_Witness ==
    /\ pass.done /\ Len(pass.out) = 3
    /\ pass.out[1].asset > pass.out[2].asset
    /\ \E k \in 1..2 : KeyOf(pass.out[k]) = KeyOf(pass.out[k + 1])
    /\ \E k \in 1..2 : KeyOf(pass.out[k]) # KeyOf(pass.out[k + 1])

\* C24: when the computation for one matched VAR asset raises an error, that
\* asset has no entry and every other matched VAR asset of the pass has its
\* entry; the pass ends with a list.
C24_ErrorOmitsOneSymbol ==
    (pass.done /\ pass.op = "fetchArbitrageData")
    => \A i \in pass.faulty :
          (i <= Len(pass.varAssets) /\ Matched(i))
          => /\ FromAsset(pass.out, i) = {}
             /\ \A j \in 1..Len(pass.varAssets) :
                   (j # i /\ Matched(j)) => FromAsset(pass.out, j) # {}

\* the error struck the first of three matched assets
C24_Witness ==
    /\ pass.done /\ pass.op = "fetchArbitrageData"
    /\ pass.faulty = {1}
    /\ Len(pass.varAssets) = 3
    /\ \A i \in 1..3 : Matched(i)
    /\ Len(pass.out) = 2

\* C30: once a push was sent to a chat for a symbol, no further push is
\* sent to that chat for that symbol before a cycle whose list shows the
\* symbol's daily profit below the chat's exit threshold.  (awaiting holds
\* the pairs pushed and not shown below the exit since; a pair pushed in a
\* cycle that also shows it below the exit is not in awaiting afterwards.)
C30_NoRepeatedPush ==
    [][\A p \in botOp'.pushes : ~(p \in awaiting /\ p \in awaiting')]_vars

\* C35: a timeline starts with one OPEN row at now with netFunding 0 and
\* spreadProfit = cumulativeProfit = lockedSpreadProfit, which is the spread
\* (varPrice - binancePrice) / binancePrice * 100 for SHORT_VAR and its
\* negation for SHORT_BINANCE; the rows after it are settlements of the two
\* venues in non-decreasing time order, each later than now and not later
\* than now + simulateDays days.
C35_OpenThenSettlementsInOrder ==
    timelineCall.done
    => LET out == timelineCall.out
           rows == out.timeline
           params == timelineCall.params
           now == timelineCall.now
           spread == Times(Over(Minus(params.varPrice, params.binancePrice),
                                params.binancePrice),
                           Number(100))
       IN  /\ Len(rows) >= 1
           /\ rows[1].event = "OPEN"
           /\ rows[1].time = now
           /\ rows[1].netFunding = Zero
           /\ rows[1].spreadProfit = out.lockedSpreadProfit
           /\ rows[1].cumulativeProfit = out.lockedSpreadProfit
           /\ params.direction = "SHORT_VAR"
                 => out.lockedSpreadProfit = spread
           /\ params.direction = "SHORT_BINANCE"
                 => out.lockedSpreadProfit = Negate(spread)
           /\ \A i \in 2..Len(rows) :
                 /\ rows[i].event \in {"VAR", "BINANCE"}
                 /\ now < rows[i].time
                 /\ rows[i].time <= now + params.simulateDays * DAY_MS
                 /\ rows[i - 1].time <= rows[i].time

\* a SHORT_BINANCE timeline with a spread, where a Binance settlement comes
\* between two settlements of VAR and two settle at the same instant
C35_Witness ==
    /\ timelineCall.done
    /\ timelineCall.params.direction = "SHORT_BINANCE"
    /\ timelineCall.out.lockedSpreadProfit # Zero
    /\ LET rows == timelineCall.out.timeline
       IN  /\ \E i, j, k \in 2..Len(rows) :
                 /\ i < j /\ j < k
                 /\ rows[i].event = "VAR" /\ rows[j].event = "BINANCE"
                 /\ rows[k].event = "VAR"
           /\ \E i \in 2..Len(rows) - 1 : rows[i].time = rows[i + 1].time

\* C36: for the same prices, rates, intervals, horizon and now, the
\* SHORT_BINANCE timeline is the negation of the SHORT_VAR timeline: the same
\* event times and sources, with lockedSpreadProfit, every varFunding,
\* binanceFunding, netFunding and cumulativeProfit, and finalProfit negated.
C36_DirectionAntisymmetry ==
    (timelineCall.done /\ timelineCall.params.direction = "SHORT_VAR")
    => LET out == timelineCall.out
           mirror == generateArbitrageTimeline(
                        [timelineCall.params
                            EXCEPT !.direction = "SHORT_BINANCE"],
                        timelineCall.now)
       IN  /\ mirror.lockedSpreadProfit = Negate(out.lockedSpreadProfit)
           /\ mirror.finalProfit = Negate(out.finalProfit)
           /\ Len(mirror.timeline) = Len(out.timeline)
           /\ \A i \in 1..Len(out.timeline) :
                 /\ mirror.timeline[i].time = out.timeline[i].time
                 /\ mirror.timeline[i].event = out.timeline[i].event
                 /\ mirror.timeline[i].varFunding
                       = Negate(out.timeline[i].varFunding)
                 /\ mirror.timeline[i].binanceFunding
                       = Negate(out.timeline[i].binanceFunding)
                 /\ mirror.timeline[i].netFunding
                       = Negate(out.timeline[i].netFunding)
                 /\ mirror.timeline[i].cumulativeProfit
                       = Negate(out.timeline[i].cumulativeProfit)

\* a SHORT_VAR timeline with a spread and settlements of both venues at
\* rates that are not 0 and differ
C36_Witness ==
    /\ timelineCall.done
    /\ timelineCall.params.direction = "SHORT_VAR"
    /\ timelineCall.out.lockedSpreadProfit # Zero
    /\ timelineCall.params.varRate # Zero
    /\ timelineCall.params.binanceRate # Zero
    /\ timelineCall.params.varRate # timelineCall.params.binanceRate
    /\ RowsOf(timelineCall.out.timeline, "VAR") # {}
    /\ RowsOf(timelineCall.out.timeline, "BINANCE") # {}
    /\ timelineCall.out.finalProfit # Zero

\* C33: at most one refresh awaits its venue retrievals at any time: a call
\* of fetchArbitrageData made while a refresh is awaiting starts no second
\* pair of retrievals.
C33_OneRefreshInFlight ==
    \A c1, c2 \in Calls :
        (/\ calls[c1].pc = "awaiting" /\ calls[c1].upstream
         /\ calls[c2].pc = "awaiting" /\ calls[c2].upstream)
        => c1 = c2

\* C34: the cache (list and fetch time) is replaced only by a refresh in
\* which both venue retrievals succeeded.
C34_StoredOnlyAfterBothSucceeded ==
    [][(cachedData' # cachedData \/ cacheAge' < cacheAge)
          => /\ cacheOp'.op = "done"
             /\ cacheOp'.var.ok
             /\ cacheOp'.bin.ok]_vars

\* C31: once a cycle has shown a symbol below a subscribed chat's exit
\* threshold, whatever its direction, the symbol is armed again: the next
\* cycle that shows it at or above the trigger threshold pushes it.  (A pair
\* is due in a cycle when the list shows it at or above the trigger and no
\* push for it awaits its exit; no cycle ends with a due pair not pushed.)
C31_RearmedBelowExit == botOp.missed = {}

\* C37: /m stores a subscription only when both arguments are percentages
\* and trigger > exit: every subscription of the store has a trigger and an
\* exit that are numbers, the trigger above the exit.
C37_TriggerAboveExit ==
    \A c \in Chats :
        subscriptions[c].on
        => /\ subscriptions[c].trigger # NaN
           /\ subscriptions[c].exit # NaN
           /\ Greater(subscriptions[c].trigger, subscriptions[c].exit)

\* C32: a pending request is rejected with 'Browser disconnected' only when
\* the socket it was sent on has closed: the close event of a socket that is
\* not the adopted connection rejects no request sent on the adopted
\* connection.  (Taken for the request browserFetch has just sent: lastOp
\* holds the socket its frame went to.)
C32_OnlyOwnSocketRejects ==
    [][(/\ lastOp.op = "browserFetch"
        /\ lastOp.sent[1].to = browserClient
        /\ lastOp'.op = "close"
        /\ readyState'[browserClient] = "OPEN")
          => promise'[lastOp.id] # Disconnected]_vars

\* C38: every close of the worker's socket, whatever closed it, schedules
\* exactly one connection attempt, also beyond maxReconnectAttempts; exactly
\* one socket or reconnect timer is outstanding in every state.
C38_OneAttemptPerClose ==
    /\ [](Outstanding(worker) = 1)
    /\ [][Len(worker'.live) < Len(worker.live)
            => Len(worker'.timers) = Len(worker.timers) + 1]_vars

\* the socket was closed after more than maxReconnectAttempts attempts in a
\* row, and the next attempt is scheduled
C38_Witness ==
    /\ workerOp.op = "close" /\ workerOp.scheduled = 1
    /\ worker.reconnectAttempts > maxReconnectAttempts
    /\ Len(worker.timers) = 1 /\ worker.live = <<>>

\* C39: a call of handleRpcRequest whose fetch is still under way has posted
\* nothing; every other call has posted exactly one rpc_response, with the
\* id of its request, holding a result and no error when the method is
\* 'fetch' and the fetch gave a 2xx reply whose body was read, and an error
\* message and no result otherwise.
C39_ExactlyOneResponse ==
    \A r \in 1..Len(proxy.requests) :
        LET q == proxy.requests[r]
            frames == {k \in 1..Len(proxy.sent) : proxy.sent[k].req = r}
        IN  IF q.pc = "fetching"
            THEN frames = {}
            ELSE /\ Cardinality(frames) = 1
                 /\ \A k \in frames :
                       /\ proxy.sent[k].type = "rpc_response"
                       /\ proxy.sent[k].id = q.msg.id
                       /\ IF q.msg.method = "fetch" /\ q.outcome = "ok"
                          THEN /\ proxy.sent[k].result # "absent"
                               /\ proxy.sent[k].error = "absent"
                          ELSE /\ proxy.sent[k].result = "absent"
                               /\ proxy.sent[k].error # "absent"

\* two requests with the same id were handled, the later one answered
\* first: one fetch succeeded, the other got a reply that is not 2xx
C39_Witness ==
    /\ Len(proxy.requests) = 2 /\ Len(proxy.sent) = 2
    /\ proxy.requests[1].msg.id = proxy.requests[2].msg.id
    /\ proxy.requests[1].outcome = "status"
    /\ proxy.requests[2].outcome = "ok"
    /\ proxy.sent[1].req = 2

====
